---- MODULE Spec2Model ----
(***************************************************************************)
(* Model of the workforce-intelligence backend: the chat agent's SQL path  *)
(* (generateSQL, getRBACFilter, validateQuery, executeQuery), the          *)
(* classification workflow (classifyNewApp, approve/reject, feedback       *)
(* thresholds, the review routes) and the audit log written by both.       *)
(*                                                                         *)
(* A SQL statement is a sequence of lexical tokens (strings); adjacent     *)
(* tokens stand for text separated by one blank.  The regular expressions  *)
(* of the source are translated to predicates on token sequences.          *)
(***************************************************************************)
EXTENDS Integers, Sequences, FiniteSets, TLC

VARIABLES
    sqlIn,      \* the caller and the statement the next SQL-path call is given
    sqlCall,    \* observation of the last call on the SQL path
    dbTables,   \* the tables that exist in the database
    rules,      \* classification_rules
    pending,    \* pending_classifications
    feedback,   \* classification_feedback
    reviewedBefore, \* reviewed pending_classifications rows older than the
                \* rows of pending, as counts per status
    audit,      \* agent_audit_log, oldest row first
    nextId,     \* the next generated row id
    clsCall,    \* observation of the last request to /api/classifications
    chat,       \* the handleChatQuery call in progress: its position and locals
    usersTbl,   \* the users table
    authCall,   \* observation of the last request that went through authMiddleware
    fnIn,       \* the argument the next call of a pure function is given
    fnOut       \* observation of the last call of a pure function

sqlVars == <<sqlIn, sqlCall, dbTables>>
clsVars == <<rules, pending, feedback, reviewedBefore, audit, nextId, clsCall>>
auxVars == <<usersTbl, authCall, fnIn, fnOut>>
vars == <<sqlVars, clsVars, chat, auxVars>>

(***************************************************************************)
(* Bounds                                                                  *)
(***************************************************************************)
MaxJoined == 1      \* tables joined to the first FROM item of an LLM statement
MaxCalls == 3       \* requests to /api/classifications in one behaviour
MaxChats == 2       \* handleChatQuery calls in one behaviour

(***************************************************************************)
(* Users (rows of the users table as authMiddleware attaches them)         *)
(***************************************************************************)
NULL == "NULL"

AdminUser == [id |-> "u_admin", role |-> "admin",    team_id |-> "T1"]
MgrUser   == [id |-> "u_mgr",   role |-> "manager",  team_id |-> "T1"]
EmpUser   == [id |-> "u_emp",   role |-> "employee", team_id |-> "T1"]
Mgr2User  == [id |-> "u_mgr2",  role |-> "manager",  team_id |-> "T2"]


(***************************************************************************)
(* Tokens                                                                  *)
(***************************************************************************)
\* <<lower-case spelling, upper-case spelling>> of the tokens that occur in
\* both cases in the statements of the model
CasePairs ==
    { <<"select", "SELECT">>, <<"from", "FROM">>, <<"where", "WHERE">>,
      <<"users", "USERS">>, <<"delete", "DELETE">>, <<"join", "JOIN">> }

\* String.prototype.toUpperCase on one token
UpperTok(t) ==
    IF \E p \in CasePairs : p[1] = t
    THEN (CHOOSE p \in CasePairs : p[1] = t)[2]
    ELSE t

\* String.prototype.toLowerCase on one token
LowerTok(t) ==
    IF \E p \in CasePairs : p[2] = t
    THEN (CHOOSE p \in CasePairs : p[2] = t)[1]
    ELSE t

\* tokens that do not start with a word character (\w)
NonWordTokens ==
    { "*", ",", ";", "--", "/*", "(", ")", "=", "{RBAC_FILTER}",
      "*/", "\"agent_audit_log\"", "'T1'", "'T2'", "'u_admin'", "'u_mgr'",
      "'u_emp'", "'u_mgr2'" }

\* the longest prefix of a token made of word characters: what (\w+) captures
\* when the token follows FROM or JOIN ("" when the token starts otherwise)
WordPrefix(t) ==
    CASE t \in NonWordTokens          -> ""
      [] t = "public.agent_audit_log" -> "public"
      [] t = "1=1"                    -> "1"
      [] t = "1=0"                    -> "1"
      [] t = "GROUP BY"               -> "GROUP"
      [] t = "ORDER BY"               -> "ORDER"
      [] OTHER                        -> t

\* the token is one word: \bt\b matches it as a whole
IsWord(t) == t # "" /\ WordPrefix(t) = t

\* the table a FROM item denotes to the database: quotes and the schema
\* qualifier removed, case folded
TableOf(t) ==
    CASE t = "\"agent_audit_log\""    -> "agent_audit_log"
      [] t = "public.agent_audit_log" -> "agent_audit_log"
      [] OTHER                        -> LowerTok(t)

(***************************************************************************)
(* src/src/services/queryExecutor.ts                                       *)
(***************************************************************************)
ALLOWED_TABLES ==
    { "users", "teams", "daily_usage", "app_usage", "projects",
      "project_time", "classification_rules" }

\* the nine \bKEYWORD\b patterns of DANGEROUS_PATTERNS
DangerousKeywords ==
    { "DROP", "DELETE", "TRUNCATE", "INSERT", "UPDATE", "ALTER", "CREATE",
      "GRANT", "REVOKE" }

\* the name of the first pattern of DANGEROUS_PATTERNS that matches, "" if none
FirstDangerous(sql) ==
    LET kw == { i \in 1..Len(sql) :
                   IsWord(sql[i]) /\ UpperTok(sql[i]) \in DangerousKeywords }
        multi == \E i \in 1..(Len(sql) - 1) :
                     sql[i] = ";" /\ WordPrefix(sql[i + 1]) # ""
        dash == \E i \in 1..Len(sql) : sql[i] = "--"
        block == \E i \in 1..Len(sql) : sql[i] = "/*"
    IN  CASE kw # {} -> "keyword"
          [] multi   -> ";\\s*\\w"
          [] dash    -> "--"
          [] block   -> "/\\*"
          [] OTHER   -> ""

\* the matches of /\bFROM\s+(\w+)|\bJOIN\s+(\w+)/gi, in order, lower-cased
RECURSIVE ExtractTables(_, _)
ExtractTables(sql, i) ==
    IF i >= Len(sql) THEN <<>>
    ELSE IF UpperTok(sql[i]) \in {"FROM", "JOIN"} /\ WordPrefix(sql[i + 1]) # ""
         THEN <<LowerTok(WordPrefix(sql[i + 1]))>> \o ExtractTables(sql, i + 2)
         ELSE ExtractTables(sql, i + 1)

\* tables.includes / push: the first occurrence of each name is kept
RECURSIVE Dedup(_)
Dedup(s) ==
    IF s = <<>> THEN <<>>
    ELSE LET r == Dedup(SubSeq(s, 1, Len(s) - 1))
             x == s[Len(s)]
         IN  IF \E j \in 1..Len(r) : r[j] = x THEN r ELSE Append(r, x)

SeqSet(s) == { s[i] : i \in 1..Len(s) }

validateQuery(sql) ==
    LET tables == Dedup(ExtractTables(sql, 1))
    IN  IF FirstDangerous(sql) # ""
        THEN [valid |-> FALSE, error |-> "forbidden pattern",
              tablesAccessed |-> <<>>]
        ELSE IF ~(sql # <<>> /\ UpperTok(sql[1]) = "SELECT")
        THEN [valid |-> FALSE, error |-> "Only SELECT queries are allowed",
              tablesAccessed |-> <<>>]
        ELSE IF \E i \in 1..Len(tables) : tables[i] \notin ALLOWED_TABLES
        THEN [valid |-> FALSE, error |-> "table not allowed",
              tablesAccessed |-> tables]
        ELSE [valid |-> TRUE, error |-> "", tablesAccessed |-> tables]

(***************************************************************************)
(* The database's reading of a statement (PostgreSQL): the tables a        *)
(* statement reads are its FROM items (the first, those after a comma,     *)
(* those after JOIN); SELECT ... INTO t creates table t.                   *)
(***************************************************************************)
RECURSIVE FromItems(_, _, _)
\* inList: the previous tokens were FROM item (, item)*
FromItems(sql, i, inList) ==
    IF i > Len(sql) THEN {}
    ELSE IF UpperTok(sql[i]) \in {"FROM", "JOIN"} /\ i < Len(sql)
              /\ sql[i + 1] # "("
         THEN {TableOf(sql[i + 1])} \cup FromItems(sql, i + 2, TRUE)
         ELSE IF inList /\ sql[i] = "," /\ i < Len(sql)
         THEN {TableOf(sql[i + 1])} \cup FromItems(sql, i + 2, TRUE)
         ELSE FromItems(sql, i + 1, FALSE)

TablesRead(sql) == FromItems(sql, 1, FALSE)

\* the target of SELECT ... INTO target, "" if the statement has none
IntoTarget(sql) ==
    IF \E i \in 1..(Len(sql) - 1) : sql[i] = "INTO"
    THEN sql[(CHOOSE i \in 1..(Len(sql) - 1) : sql[i] = "INTO") + 1]
    ELSE ""

\* query(sql, params): "ok" or "error", and the tables afterwards
DBQuery(sql, tables) ==
    IF IntoTarget(sql) # ""
    THEN IF IntoTarget(sql) \in tables \/ ~(TablesRead(sql) \subseteq tables)
         THEN [status |-> "error", tables |-> tables]
         ELSE [status |-> "ok", tables |-> tables \cup {IntoTarget(sql)}]
    ELSE IF TablesRead(sql) \subseteq tables
         THEN [status |-> "ok", tables |-> tables]
         ELSE [status |-> "error", tables |-> tables]

(***************************************************************************)
(* src/src/agents/chat/sqlGenerator.ts                                     *)
(***************************************************************************)
Quoted(id) == "'" \o id \o "'"

globalTables == {"projects", "teams", "classification_rules", "pending_classifications"}

\* sql.toLowerCase().includes(`from ${table}`) for some global table; the
\* three longer patterns of the source contain this one
isGlobalQuery(sql) ==
    \E i \in 1..(Len(sql) - 1) :
        LowerTok(sql[i]) = "from" /\ LowerTok(sql[i + 1]) \in globalTables

RoleFilter(user) ==
    CASE user.role = "admin"    -> <<"1=1">>
      [] user.role = "manager"  ->
            <<"user_id", "IN", "(", "SELECT", "id", "FROM", "users", "WHERE",
              "team_id", "=", Quoted(user.team_id), ")">>
      [] user.role = "employee" -> <<"user_id", "=", Quoted(user.id)>>
      [] OTHER                  -> <<"1=0">>

\* getRBACFilter(user, sql); hasSql is FALSE for the call without a statement
getRBACFilter(user, hasSql, sql) ==
    IF hasSql /\ isGlobalQuery(sql) THEN <<"1=1">> ELSE RoleFilter(user)

\* the direct templates; <<>> stands for null
generateEntitySQL(parsedQuery, user) ==
    LET rbacFilter == getRBACFilter(user, FALSE, <<>>)
    IN  CASE parsedQuery.entity = "projects" ->
                <<"SELECT", "name", ",", "billable", "FROM", "projects", "WHERE">>
                \o rbacFilter \o <<"ORDER BY", "name">>
          [] parsedQuery.entity = "teams" ->
                <<"SELECT", "name", ",", "department", "FROM", "teams", "WHERE">>
                \o rbacFilter \o <<"ORDER BY", "department", ",", "name">>
          [] parsedQuery.entity = "users" ->
                <<"SELECT", "name", ",", "email", ",", "role", "FROM", "users", "WHERE">>
                \o rbacFilter \o <<"ORDER BY", "role", ",", "name">>
          [] parsedQuery.entity = "classification_rules" ->
                <<"SELECT", "app_name", ",", "classification", ",", "confidence",
                  "FROM", "classification_rules", "WHERE">>
                \o rbacFilter \o <<"ORDER BY", "app_name">>
          [] OTHER -> <<>>

\* first index whose token is one of tokens, 0 if none
FirstIndex(sql, tokens) ==
    IF \E i \in 1..Len(sql) : sql[i] \in tokens
    THEN CHOOSE i \in 1..Len(sql) :
            sql[i] \in tokens /\ \A j \in 1..(i - 1) : sql[j] \notin tokens
    ELSE 0

\* the statement with its token at index i replaced by the tokens mid
Splice(sql, i, mid) == SubSeq(sql, 1, i - 1) \o mid \o SubSeq(sql, i + 1, Len(sql))

\* lines 499-522: where the filter goes
ApplyRBAC(sql, rbacFilter) ==
    LET WhereTokens == { sql[i] : i \in { j \in 1..Len(sql) : UpperTok(sql[j]) = "WHERE" } }
        ph == FirstIndex(sql, {"{RBAC_FILTER}"})
        wh == FirstIndex(sql, WhereTokens)
        gr == FirstIndex(sql, {"GROUP BY"})
        ob == FirstIndex(sql, {"ORDER BY"})
        li == FirstIndex(sql, {"LIMIT"})
        before(i) == Splice(sql, i, <<"WHERE">> \o rbacFilter \o <<sql[i]>>)
    IN  IF ph # 0 THEN Splice(sql, ph, rbacFilter)
        ELSE IF wh # 0 /\ wh < Len(sql)
        THEN Splice(sql, wh, <<"WHERE">> \o rbacFilter \o <<"AND">>)
        ELSE IF gr # 0 THEN before(gr)
        ELSE IF ob # 0 THEN before(ob)
        ELSE IF li # 0 THEN before(li)
        ELSE sql \o <<"WHERE">> \o rbacFilter

\* sql.replace(/AND\s+AND/gi, 'AND'): one pass, matches do not overlap
RECURSIVE CollapseAndAnd(_)
CollapseAndAnd(sql) ==
    IF Len(sql) < 2 THEN sql
    ELSE IF sql[1] = "AND" /\ sql[2] = "AND"
         THEN <<"AND">> \o CollapseAndAnd(SubSeq(sql, 3, Len(sql)))
         ELSE <<sql[1]>> \o CollapseAndAnd(Tail(sql))

\* sql.replace(/WHERE\s+AND/gi, 'WHERE')
RECURSIVE CollapseWhereAnd(_)
CollapseWhereAnd(sql) ==
    IF Len(sql) < 2 THEN sql
    ELSE IF UpperTok(sql[1]) = "WHERE" /\ sql[2] = "AND"
         THEN <<"WHERE">> \o CollapseWhereAnd(SubSeq(sql, 3, Len(sql)))
         ELSE <<sql[1]>> \o CollapseWhereAnd(Tail(sql))

\* generateSQL: llm is the statement of the parsed LLM answer, <<>> when the
\* answer is not JSON or has no sql.  The numeric and ROUND repairs of lines
\* 528-551 rewrite SUM/NULLIF/ROUND/::float text, which no statement of the
\* model contains, and leave the rest of the statement as it is.
generateSQL(parsedQuery, user, llm) ==
    LET directSQL == generateEntitySQL(parsedQuery, user)
    IN  IF directSQL # <<>> THEN [ok |-> TRUE, direct |-> TRUE, sql |-> directSQL]
        ELSE IF llm = <<>> THEN [ok |-> FALSE, direct |-> FALSE, sql |-> <<>>]
        ELSE [ok |-> TRUE, direct |-> FALSE,
              sql |-> CollapseWhereAnd(CollapseAndAnd(
                          ApplyRBAC(llm, getRBACFilter(user, TRUE, llm))))]

(***************************************************************************)
(* executeQuery (queryExecutor.ts 99-124): validate, then send             *)
(***************************************************************************)
executeQueryUnchecked(sql, tables) ==
    LET r == DBQuery(sql, tables)
    IN  [sent |-> TRUE, status |-> r.status, tables |-> r.tables,
         tablesAccessed |-> validateQuery(sql).tablesAccessed]

executeQuery(sql, tables) ==
    LET validation == validateQuery(sql)
        r == DBQuery(sql, tables)
    IN  IF ~validation.valid
        THEN [sent |-> FALSE, status |-> "validation failed", tables |-> tables,
              tablesAccessed |-> <<>>]
        ELSE [sent |-> TRUE, status |-> r.status, tables |-> r.tables,
              tablesAccessed |-> validation.tablesAccessed]

\* executeQueryWithTimeout (129-140) races executeQuery against a timer: the
\* statement is handed to executeQuery whoever wins
executeQueryWithTimeout(sql, tables) == executeQuery(sql, tables)

(***************************************************************************)
(* Inputs of the SQL path                                                  *)
(***************************************************************************)
SqlUsers == {AdminUser, MgrUser, EmpUser}

SchemaTables ==
    ALLOWED_TABLES \cup
    {"pending_classifications", "agent_audit_log", "classification_feedback"}

ParsedQueries ==
    [intent : {"list", "summary"},
     entity : {"", "projects", "teams", "users", "classification_rules", "apps"}]

Heads ==
    { <<"select", "*">>, <<"SELECT", "*", "INTO", "scratch">>, <<"DELETE">> }

FirstRefs ==
    { "users", "USERS", "teams", "daily_usage", "agent_audit_log",
      "\"agent_audit_log\"", "public.agent_audit_log" }

JoinPieces ==
    { <<kw, t>> : kw \in {"JOIN", ","}, t \in {"users", "agent_audit_log"} }

RECURSIVE JoinTails(_)
JoinTails(n) ==
    IF n = 0 THEN { <<>> }
    ELSE { <<>> } \cup { p \o s : p \in JoinPieces, s \in JoinTails(n - 1) }

Wheres ==
    { <<>>, <<"WHERE", "{RBAC_FILTER}">>, <<"where", "active">> }

Ends ==
    { <<>>, <<"GROUP BY", "date">>, <<"LIMIT", "10">>, <<";">>,
      <<";", "DROP", "TABLE", "users">>, <<"--", "x">>, <<"/*", "x", "*/">> }

\* the statements an LLM answer or a direct caller may carry
Statements ==
    { h \o <<"FROM", t>> \o j \o w \o e :
        h \in Heads, t \in FirstRefs, j \in JoinTails(MaxJoined),
        w \in Wheres, e \in Ends }

\* the users table as seeded: an admin, a manager and an employee of team T1
\* and a manager of team T2
SeededUsers == {AdminUser, MgrUser, EmpUser, Mgr2User}

\* the text after 'Bearer ' when it is no JSON web token
NoToken ==
    [id |-> "", role |-> "", team_id |-> "", signedBy |-> "nobody", expired |-> FALSE]

NoAuthCall ==
    [n |-> 0, route |-> "", header |-> [scheme |-> "", token |-> NoToken],
     userId |-> "", dbFails |-> FALSE, next |-> FALSE, status |-> 0,
     user |-> [id |-> "", role |-> "", team_id |-> ""], handler |-> FALSE,
     items |-> {}]

NoFnCall == [fn |-> "none"]

\* nothing has gone through authMiddleware and no pure function was called
AuxIdle ==
    /\ usersTbl = SeededUsers
    /\ authCall = NoAuthCall
    /\ fnIn = <<>>
    /\ fnOut = NoFnCall

\* no error response (chat/index.ts 151-163) has been returned
NoErrorResponse ==
    [returned |-> FALSE, answer |-> "", rowCount |-> 0, tablesAccessed |-> <<>>,
     confidence |-> 0]

\* no handleChatQuery call has been made
NoChat ==
    [pc |-> "idle", call |-> 0, userQuery |-> "",
     user |-> [id |-> "", role |-> "", team_id |-> ""], generalResponse |-> "",
     parsedQuery |-> [intent |-> "", entity |-> ""], sqlGenerated |-> <<>>,
     tablesAccessed |-> <<>>, answer |-> "", errorMessage |-> "",
     before |-> 0, returned |-> "none", errorResponse |-> NoErrorResponse]

NoSqlCall ==
    [op |-> "none", role |-> "", uid |-> "", team |-> "", sql |-> <<>>,
     valid |-> FALSE, tablesAccessed |-> <<>>, sent |-> FALSE, status |-> ""]

NoClsCall ==
    [route |-> "none", uid |-> "", role |-> "", status |-> 0, fn |-> "",
     ok |-> FALSE, requiresApproval |-> FALSE, factors |-> "", confidence |-> 0,
     listed |-> {}, n |-> 0, app |-> "", id |-> 0, override |-> "",
     classification |-> "", llmCalled |-> FALSE, body |-> ""]

\* the classification tables while the SQL path is exercised
ClsIdle ==
    /\ rules = {}
    /\ pending = {}
    /\ feedback = {}
    /\ reviewedBefore = [approved |-> 0, rejected |-> 0]
    /\ audit = <<>>
    /\ nextId = 1
    /\ clsCall = NoClsCall

(***************************************************************************)
(* Actions of the SQL path                                                 *)
(***************************************************************************)
\* handleChatQuery steps 3-5 (chat/index.ts 70-102): generate, validate,
\* execute; a failing step throws to the catch block and the rest is skipped
ChatSQLPath(user, parsedQuery, llm) ==
    LET generated == generateSQL(parsedQuery, user, llm)
        validation == validateQuery(generated.sql)
        result == executeQueryWithTimeout(generated.sql, dbTables)
        base == [op |-> "chat", role |-> user.role, uid |-> user.id,
                 team |-> user.team_id, sql |-> generated.sql,
                 valid |-> FALSE, tablesAccessed |-> <<>>, sent |-> FALSE,
                 status |-> "Failed to generate SQL query"]
    IN  /\ sqlCall.op = "none"
        \* the LLM is asked only when no direct template applies
        /\ generateEntitySQL(parsedQuery, user) # <<>> => llm = <<>>
        /\ UNCHANGED sqlIn
        /\ IF ~generated.ok
           THEN /\ sqlCall' = base
                /\ UNCHANGED dbTables
           ELSE IF ~validation.valid
           THEN /\ sqlCall' = [base EXCEPT !.status = "Invalid SQL"]
                /\ UNCHANGED dbTables
           ELSE /\ sqlCall' = [base EXCEPT !.valid = TRUE,
                                  !.tablesAccessed = validation.tablesAccessed,
                                  !.sent = result.sent,
                                  !.status = result.status]
                /\ dbTables' = result.tables

\* a direct call of the exported executeQuery
ExecuteQuery(sql) ==
    LET result == executeQuery(sql, dbTables)
    IN  /\ sqlCall.op = "none"
        /\ sql # <<>>
        /\ UNCHANGED sqlIn
        /\ sqlCall' = [op |-> "executeQuery", role |-> "", uid |-> "", team |-> "",
                       sql |-> sql, valid |-> validateQuery(sql).valid,
                       tablesAccessed |-> validateQuery(sql).tablesAccessed,
                       sent |-> result.sent, status |-> result.status]
        /\ dbTables' = result.tables

InitSQL ==
    /\ sqlIn \in [user : SqlUsers, llm : Statements \cup { <<>> }]
    /\ sqlCall = NoSqlCall
    /\ dbTables = SchemaTables
    /\ ClsIdle
    /\ chat = NoChat
    /\ AuxIdle

NextSQL ==
    \/ \E pq \in ParsedQueries :
          ChatSQLPath(sqlIn.user, pq, sqlIn.llm) /\ UNCHANGED <<clsVars, chat, auxVars>>
    \/ ExecuteQuery(sqlIn.llm) /\ UNCHANGED <<clsVars, chat, auxVars>>

SpecSQL == InitSQL /\ [][NextSQL]_vars

(***************************************************************************)
(* Claims on the SQL path (checked under SpecSQL)                          *)
(***************************************************************************)
UserTables == {"users", "daily_usage", "app_usage", "project_time"}

\* the tokens f occur, in order and adjacent, after a WHERE of the statement
HasPredicate(sql, f) ==
    \E i \in 1..Len(sql) : \E j \in (i + 1)..Len(sql) :
        /\ UpperTok(sql[i]) = "WHERE"
        /\ j + Len(f) - 1 <= Len(sql)
        /\ SubSeq(sql, j, j + Len(f) - 1) = f

CallUser == [id |-> sqlCall.uid, role |-> sqlCall.role, team_id |-> sqlCall.team]

\* C1: every statement generateSQL returns to a manager or an employee that
\* reads a user-specific table carries that user's RBAC predicate in its
\* WHERE clause, and the predicate 1=1 is put on a statement that reads such
\* a table only for an admin.  (Stated for the statements that then pass
\* validateQuery and are executed: the ones whose rows the user is shown.)
C1_RbacPredicateApplied ==
    (/\ sqlCall.op = "chat"
     /\ sqlCall.sql # <<>>
     /\ sqlCall.sent
     /\ TablesRead(sqlCall.sql) \cap UserTables # {})
    => /\ sqlCall.role \in {"manager", "employee"}
          => HasPredicate(sqlCall.sql, RoleFilter(CallUser))
       /\ HasPredicate(sqlCall.sql, <<"1=1">>) => sqlCall.role = "admin"

\* the statements the claim C2 names: not starting with SELECT, or holding a
\* mutating keyword as a word, a ';' followed by a word character, '--' or '/*'
NamedUnsafe(sql) ==
    \/ UpperTok(sql[1]) # "SELECT"
    \/ \E i \in 1..Len(sql) :
          UpperTok(sql[i]) \in
            { "DROP", "DELETE", "TRUNCATE", "INSERT", "UPDATE", "ALTER",
              "CREATE", "GRANT", "REVOKE" }
    \/ \E i \in 1..(Len(sql) - 1) : sql[i] = ";" /\ IsWord(sql[i + 1])
    \/ \E i \in 1..Len(sql) : sql[i] \in {"--", "/*"}

\* C2: a statement reaches the database only if validateQuery accepted that
\* very statement; a statement that does not begin with SELECT or holds a
\* mutating keyword, ';' followed by a word character, '--' or '/*' is
\* answered with an error and is not sent.
C2_OnlyValidatedStatementsSent ==
    /\ sqlCall.sent => sqlCall.valid /\ validateQuery(sqlCall.sql).valid
    /\ (sqlCall.op # "none" /\ sqlCall.sql # <<>> /\ NamedUnsafe(sqlCall.sql))
       => /\ ~sqlCall.sent
          /\ sqlCall.status \in {"Invalid SQL", "validation failed"}
          /\ dbTables = SchemaTables

C2_Witness ==
    /\ sqlCall.op = "executeQuery"
    /\ \E i \in 1..(Len(sqlCall.sql) - 1) :
          sqlCall.sql[i] = ";" /\ sqlCall.sql[i + 1] = "DROP"
    /\ sqlCall.status = "validation failed"
    /\ ~sqlCall.sent

\* C3: executing a statement that validateQuery accepts leaves the set of
\* tables of the database as it was.
C3_AcceptedStatementsReadOnly ==
    [][(sqlCall'.sent /\ validateQuery(sqlCall'.sql).valid)
        => dbTables' = dbTables]_sqlVars

\* C4: a statement that validateQuery accepts reads allow-listed tables only,
\* and tablesAccessed names every table it reads.
C4_AcceptedReadsAllowListOnly ==
    (sqlCall.op # "none" /\ sqlCall.valid)
    => /\ TablesRead(sqlCall.sql) \subseteq ALLOWED_TABLES
       /\ TablesRead(sqlCall.sql) \subseteq SeqSet(sqlCall.tablesAccessed)

(***************************************************************************)
(* Classification: src/src/middleware/rbac.ts 111-387 (classifier.ts and   *)
(* feedback.ts).  Confidences and thresholds are in hundredths.            *)
(***************************************************************************)
DefaultAutoApprove == 90
RequireReview == 70
MinReviewed == 50
HighRatePct == 95
LowRatePct == 80
LoweredAutoApprove == 85
RaisedAutoApprove == 95
ParseErrorConfidence == 30
MissingConfidence == 50

Ratings == {"productive", "neutral", "unproductive"}

\* normalizeClassification (228-233)
normalizeClassification(value) ==
    CASE value \in {"productive", "Productive"}     -> "productive"
      [] value \in {"unproductive", "UNPRODUCTIVE"} -> "unproductive"
      [] OTHER                                      -> "neutral"

\* Confidences are hundredths, 0..100.  NaN stands for JavaScript's NaN, the
\* value of arithmetic on a non-number: every comparison with it is false and
\* Math.min and Math.max return it.
NaN == -1

Min(a, b) == IF a = NaN \/ b = NaN THEN NaN ELSE IF a < b THEN a ELSE b
Max(a, b) == IF a = NaN \/ b = NaN THEN NaN ELSE IF a > b THEN a ELSE b

\* classifyApp (162-226) on the LLM's answer: "throws" when chat() fails,
\* "garbage" when the answer is not JSON, else the JSON's fields
classifyApp(llm) ==
    CASE llm.kind = "throws"  -> [threw |-> TRUE, classification |-> "",
                                  confidence |-> 0, factors |-> ""]
      [] llm.kind = "garbage" -> [threw |-> FALSE, classification |-> "neutral",
                                  confidence |-> ParseErrorConfidence,
                                  factors |-> "parsing_error"]
      [] OTHER ->
            [threw |-> FALSE,
             classification |-> normalizeClassification(llm.classification),
             confidence |->
                Min(Max(IF llm.confidence = 0 THEN MissingConfidence
                        ELSE llm.confidence, 0), 100),
             factors |-> "llm"]

\* getFeedbackStats (302-360); a rate is kept as numerator and denominator
getFeedbackStats(pend, fb, before) ==
    LET totalApprovals ==
            before.approved + Cardinality({p \in pend : p.status = "approved"})
        totalRejections ==
            before.rejected + Cardinality({p \in pend : p.status = "rejected"})
        total == totalApprovals + totalRejections
        acc(c) ==
            LET rows == {f \in fb : f.original_classification = c}
            IN  IF rows = {} THEN [num |-> 1, den |-> 1]
                ELSE [num |-> Cardinality({f \in rows :
                          f.original_classification = f.corrected_classification}),
                      den |-> Cardinality(rows)]
    IN  [totalApprovals |-> totalApprovals,
         totalRejections |-> totalRejections,
         totalOverrides |-> Cardinality(fb),
         approvalRate |-> IF total > 0 THEN [num |-> totalApprovals, den |-> total]
                          ELSE [num |-> 0, den |-> 1],
         classificationAccuracy |-> [c \in Ratings |-> acc(c)]]

getAdjustedConfidenceThresholdsGE(stats) ==
    LET rate == stats.approvalRate
        autoApprove ==
            IF stats.totalApprovals + stats.totalRejections >= MinReviewed
            THEN IF rate.num * 100 >= HighRatePct * rate.den THEN LoweredAutoApprove
                 ELSE IF rate.num * 100 < LowRatePct * rate.den THEN RaisedAutoApprove
                 ELSE DefaultAutoApprove
            ELSE DefaultAutoApprove
    IN  [autoApprove |-> autoApprove, requireReview |-> RequireReview]

\* getAdjustedConfidenceThresholds (365-387)
getAdjustedConfidenceThresholds(stats) ==
    LET rate == stats.approvalRate
        autoApprove ==
            IF stats.totalApprovals + stats.totalRejections >= MinReviewed
            THEN IF rate.num * 100 > HighRatePct * rate.den THEN LoweredAutoApprove
                 ELSE IF rate.num * 100 < LowRatePct * rate.den THEN RaisedAutoApprove
                 ELSE DefaultAutoApprove
            ELSE DefaultAutoApprove
    IN  [autoApprove |-> autoApprove, requireReview |-> RequireReview]

\* DECIMAL(3,2): confidence * 0.9, rounded to hundredths
TimesPointNine(c) == IF c = NaN THEN NaN ELSE (c * 90 + 50) \div 100

recordFeedbackSwapped(rs, fb, id, ruleId, original, corrected, correctedBy) ==
    [feedback |-> fb \cup {[id |-> id, rule_id |-> ruleId,
                            original_classification |-> corrected,
                            corrected_classification |-> original,
                            corrected_by |-> correctedBy]},
     rules |-> rs]

\* recordFeedback (276-297): one feedback row, and the rule rewritten
recordFeedback(rs, fb, id, ruleId, original, corrected, correctedBy) ==
    [feedback |-> fb \cup {[id |-> id, rule_id |-> ruleId,
                            original_classification |-> original,
                            corrected_classification |-> corrected,
                            corrected_by |-> correctedBy]},
     rules |-> { IF r.id = ruleId
                 THEN [r EXCEPT !.classification = corrected,
                                !.confidence = TimesPointNine(r.confidence)]
                 ELSE r : r \in rs }]

(***************************************************************************)
(* src/src/agents/classification/index.ts                                  *)
(***************************************************************************)
\* LOWER(app_name)
LowerApp(name) == IF name = "Slack" THEN "slack" ELSE name

\* entry.f || null for a string field that may be absent
OrNull(entry, f) ==
    IF f \in DOMAIN entry /\ entry[f] # "" /\ entry[f] # "0" THEN entry[f] ELSE NULL

\* logAgentAction (unnamed/part_003 15-35): the row it inserts.  Milliseconds
\* are written as decimal strings, "0" being the falsy one.
logAgentAction(entry) ==
    [agent_type |-> entry.agentType, user_id |-> entry.userId,
     query |-> entry.queryText,
     response |-> OrNull(entry, "response"),
     \* a statement is a token sequence; <<>> is both '' and NULL
     sql_generated |->
        IF "sqlGenerated" \in DOMAIN entry THEN entry.sqlGenerated ELSE <<>>,
     data_accessed |->
        IF "dataAccessed" \in DOMAIN entry THEN entry.dataAccessed ELSE <<>>,
     execution_time_ms |-> OrNull(entry, "executionTimeMs"),
     success |-> IF "success" \in DOMAIN entry THEN entry.success ELSE TRUE,
     error_message |-> OrNull(entry, "errorMessage")]

\* the tables as a function leaves them, and what it answers
Unchanged ==
    [rules |-> rules, pending |-> pending, feedback |-> feedback,
     audit |-> audit, nextId |-> nextId, threw |-> FALSE,
     requiresApproval |-> FALSE, factors |-> "", confidence |-> 0,
     classification |-> "", llmCalled |-> FALSE]

\* line 60
RequiresApproval(confidence, autoApprove) ==
    confidence # NaN /\ confidence < autoApprove

ExistingRuleExact(appName) == {r \in rules : r.app_name = appName}

\* lines 31-34: the rows of WHERE LOWER(app_name) = LOWER($1)
ExistingRule(appName) == {r \in rules : LowerApp(r.app_name) = LowerApp(appName)}

\* classifyNewApp (23-139): the set of its possible outcomes (LIMIT 1 without
\* ORDER BY returns any one of the matching rules)
classifyNewApp(appName, user, llm, elapsed) ==
    LET existingRule == ExistingRule(appName)
        result == classifyApp(llm)
        thresholds ==
            getAdjustedConfidenceThresholds(
                getFeedbackStats(pending, feedback, reviewedBefore))
        requiresApproval == RequiresApproval(result.confidence, thresholds.autoApprove)
        succeeded ==
            [agentType |-> "classification", userId |-> user.id,
             queryText |-> "Classify app: " \o appName,
             response |-> result.classification,
             executionTimeMs |-> elapsed, success |-> TRUE]
        failed ==
            [agentType |-> "classification", userId |-> user.id,
             queryText |-> "Classify app: " \o appName,
             executionTimeMs |-> elapsed, success |-> FALSE,
             errorMessage |-> "classifier failed"]
        logged(success) ==
            Append(audit, logAgentAction(IF success THEN succeeded ELSE failed))
        answered ==
            [Unchanged EXCEPT !.nextId = nextId + 1, !.audit = logged(TRUE),
                              !.factors = result.factors,
                              !.confidence = result.confidence,
                              !.classification = result.classification,
                              !.llmCalled = TRUE]
    IN  IF existingRule # {}
        THEN { [Unchanged EXCEPT !.factors = "existing_rule",
                                 !.confidence = r.confidence,
                                 !.classification = r.classification]
               : r \in existingRule }
        ELSE IF result.threw
        THEN { [Unchanged EXCEPT !.threw = TRUE, !.audit = logged(FALSE),
                                 !.llmCalled = TRUE] }
        ELSE IF requiresApproval
        THEN { [answered EXCEPT
                  !.requiresApproval = TRUE,
                  !.pending = pending \cup
                     {[id |-> nextId, app_name |-> appName, team_id |-> user.team_id,
                       suggested_classification |-> result.classification,
                       confidence |-> result.confidence, status |-> "pending",
                       reviewed_by |-> NULL]}] }
        ELSE { [answered EXCEPT
                  !.rules = rules \cup
                     {[id |-> nextId, app_name |-> appName, team_id |-> NULL,
                       role |-> NULL, classification |-> result.classification,
                       confidence |-> result.confidence, reasoning |-> "llm",
                       approved_by |-> NULL]}] }

\* getPendingClassifications (144-171): the ids of the rows returned
getPendingClassifications(user) ==
    CASE user.role = "employee" -> {}
      [] user.role = "manager"  ->
            {p.id : p \in {q \in pending :
                              q.status = "pending" /\ q.team_id = user.team_id}}
      [] OTHER -> {p.id : p \in {q \in pending : q.status = "pending"}}

\* UNIQUE(app_name, team_id, role): two rows conflict when the three columns
\* are equal and none is NULL
UniqueConflict(r, n) ==
    /\ r.app_name = n.app_name
    /\ r.team_id # NULL /\ r.team_id = n.team_id
    /\ r.role # NULL /\ r.role = n.role

\* lines 195-196: options.overrideClassification || record.suggested_classification
FinalClassification(override, record) ==
    IF override # "" THEN override ELSE record.suggested_classification

approveClassificationStatusOnly(pendingId, user, override) ==
    IF \E p \in pending : p.id = pendingId
    THEN { [Unchanged EXCEPT
              !.pending = { IF p.id = pendingId
                            THEN [p EXCEPT !.status = "approved",
                                           !.reviewed_by = user.id]
                            ELSE p : p \in pending }] }
    ELSE { [Unchanged EXCEPT !.threw = TRUE] }

\* approveClassification (176-251); override is "" when none is given
approveClassification(pendingId, user, override) ==
    LET found == {p \in pending : p.id = pendingId}
        record == CHOOSE p \in found : TRUE
        finalClassification == FinalClassification(override, record)
        new == [id |-> nextId, app_name |-> record.app_name,
                team_id |-> record.team_id, role |-> NULL,
                classification |-> finalClassification,
                confidence |-> IF override # "" THEN 100 ELSE record.confidence,
                reasoning |-> IF override # "" THEN "override" ELSE "llm",
                approved_by |-> user.id]
        conflict == {r \in rules : UniqueConflict(r, new)}
        rules1 ==
            IF conflict = {} THEN rules \cup {new}
            ELSE { IF r \in conflict
                   THEN [r EXCEPT !.classification = new.classification,
                                  !.confidence = new.confidence,
                                  !.reasoning = new.reasoning,
                                  !.approved_by = new.approved_by]
                   ELSE r : r \in rules }
        id1 == IF conflict = {} THEN nextId + 1 ELSE nextId
        pending1 ==
            { IF p.id = pendingId
              THEN [p EXCEPT !.status = "approved", !.reviewed_by = user.id]
              ELSE p : p \in pending }
        logged ==
            Append(audit, logAgentAction(
                [agentType |-> "classification", userId |-> user.id,
                 queryText |-> "Approve classification: " \o record.app_name,
                 response |-> "Approved as: " \o finalClassification,
                 success |-> TRUE]))
        rule == {r \in rules1 :
                    /\ r.app_name = record.app_name
                    /\ \/ (record.team_id # NULL /\ r.team_id = record.team_id)
                       \/ r.team_id = NULL}
        approved == [Unchanged EXCEPT !.rules = rules1, !.pending = pending1,
                                      !.nextId = id1, !.audit = logged]
    IN  IF found = {} THEN { [Unchanged EXCEPT !.threw = TRUE] }
        ELSE IF override # "" /\ override # record.suggested_classification
                /\ rule # {}
        THEN { LET fb == recordFeedback(rules1, feedback, id1, r.id,
                                        record.suggested_classification,
                                        override, user.id)
               IN  [approved EXCEPT !.rules = fb.rules, !.feedback = fb.feedback,
                                    !.nextId = id1 + 1] : r \in rule }
        ELSE { approved }

\* rejectClassification (256-280)
rejectClassification(pendingId, user, reason) ==
    IF \E p \in pending : p.id = pendingId
    THEN { [Unchanged EXCEPT
              !.pending = { IF p.id = pendingId
                            THEN [p EXCEPT !.status = "rejected",
                                           !.reviewed_by = user.id]
                            ELSE p : p \in pending },
              !.audit = Append(audit, logAgentAction(
                  [agentType |-> "classification", userId |-> user.id,
                   queryText |-> "Reject classification: " \o
                       (CHOOSE p \in pending : p.id = pendingId).app_name,
                   response |-> "Rejected: " \o reason,
                   success |-> TRUE]))] }
    ELSE { [Unchanged EXCEPT !.threw = TRUE] }

(***************************************************************************)
(* src/src/middleware/auth.ts and src/src/routes/classifications.ts        *)
(***************************************************************************)
requireRoleAny(roles, user) == TRUE

\* requireRole (66-80) for an authenticated request
requireRole(roles, user) == user.role \in roles

\* the tables after a function's outcome o
Apply(o) ==
    /\ rules' = o.rules
    /\ pending' = o.pending
    /\ feedback' = o.feedback
    /\ audit' = o.audit
    /\ nextId' = o.nextId

Request(route, user, status) ==
    [NoClsCall EXCEPT !.route = route, !.uid = user.id, !.role = user.role,
                      !.status = status, !.n = clsCall.n + 1]

Denied(route, user, status) ==
    /\ clsCall' = Request(route, user, status)
    /\ UNCHANGED <<rules, pending, feedback, audit, nextId>>

\* POST /classify (23-46)
PostClassify(user, appName, llm, elapsed) ==
    /\ clsCall.n < MaxCalls
    /\ UNCHANGED reviewedBefore
    /\ IF appName = "" THEN Denied("classify", user, 400)
       ELSE \E o \in classifyNewApp(appName, user, llm, elapsed) :
               /\ Apply(o)
               /\ clsCall' =
                    [Request("classify", user, IF o.threw THEN 500 ELSE 200)
                       EXCEPT !.fn = "classifyNewApp", !.ok = ~o.threw,
                              !.app = appName,
                              !.requiresApproval = o.requiresApproval,
                              !.factors = o.factors, !.confidence = o.confidence,
                              !.classification = o.classification,
                              !.llmCalled = o.llmCalled]

\* GET /pending (52-75)
GetPending(user) ==
    /\ clsCall.n < MaxCalls
    /\ UNCHANGED reviewedBefore
    /\ IF ~requireRole({"admin", "manager"}, user) THEN Denied("pending", user, 403)
       ELSE /\ clsCall' = [Request("pending", user, 200)
                             EXCEPT !.fn = "getPendingClassifications", !.ok = TRUE,
                                    !.listed = getPendingClassifications(user)]
            /\ UNCHANGED <<rules, pending, feedback, audit, nextId>>

PostApproveAsSent(user, id, overrideClassification) ==
    /\ clsCall.n < MaxCalls
    /\ UNCHANGED reviewedBefore
    /\ IF ~requireRole({"admin", "manager"}, user)
       THEN Denied("approve", user, 403)
       ELSE \E o \in approveClassification(id, user, overrideClassification) :
               /\ Apply(o)
               /\ clsCall' =
                    [Request("approve", user, IF o.threw THEN 500 ELSE 200)
                       EXCEPT !.fn = "approveClassification", !.ok = ~o.threw,
                              !.id = id, !.override = overrideClassification,
                              !.body = overrideClassification]

\* POST /:id/approve (81-128); a body value outside validRatings is dropped
PostApprove(user, id, overrideClassification) ==
    LET overrideRating ==
            IF overrideClassification \in Ratings THEN overrideClassification ELSE ""
    IN  /\ clsCall.n < MaxCalls
        /\ UNCHANGED reviewedBefore
        /\ IF ~requireRole({"admin", "manager"}, user)
           THEN Denied("approve", user, 403)
           ELSE \E o \in approveClassification(id, user, overrideRating) :
                   /\ Apply(o)
                   /\ clsCall' =
                        [Request("approve", user, IF o.threw THEN 500 ELSE 200)
                           EXCEPT !.fn = "approveClassification", !.ok = ~o.threw,
                                  !.id = id, !.override = overrideRating,
                                  !.body = overrideClassification]

\* POST /:id/reject (134-164); reason is "" when the body has none
PostReject(user, id, reason) ==
    /\ clsCall.n < MaxCalls
    /\ UNCHANGED reviewedBefore
    /\ IF ~requireRole({"admin", "manager"}, user) THEN Denied("reject", user, 403)
       ELSE IF reason = "" THEN Denied("reject", user, 400)
       ELSE \E o \in rejectClassification(id, user, reason) :
               /\ Apply(o)
               /\ clsCall' =
                    [Request("reject", user, IF o.threw THEN 500 ELSE 200)
                       EXCEPT !.fn = "rejectClassification", !.ok = ~o.threw,
                              !.id = id]

(***************************************************************************)
(* The classification workflow                                             *)
(***************************************************************************)
AppNames == {"Slack", "slack", ""}

\* the LLM's answers: no answer, text that is no JSON, and JSON whose
\* confidence is absent (0), a number, or a value that is no number (NaN)
LLMAnswers ==
    { [kind |-> "throws", classification |-> "", confidence |-> 0],
      [kind |-> "garbage", classification |-> "", confidence |-> 0] }
    \cup [kind : {"json"}, classification : {"Productive"},
          confidence : {0, 85, 90, 120, NaN}]

\* Date.now() - startTime; a call that waited for the LLM's answer took at
\* least a millisecond
ElapsedMs == {"0", "7"}

Overrides == {"", "unproductive", "productive", "not a rating"}

\* the reviews made before the first request of a behaviour
ReviewHistories ==
    { [approved |-> 0, rejected |-> 0], [approved |-> 48, rejected |-> 1],
      [approved |-> 39, rejected |-> 10], [approved |-> 57, rejected |-> 3] }

\* the ids a request may name: the rows of pending and one that is no row
PendingIds == {p.id : p \in pending} \cup {0}

Init ==
    /\ rules = {}
    /\ pending = {}
    /\ feedback = {}
    /\ reviewedBefore \in ReviewHistories
    /\ audit = <<>>
    /\ nextId = 1
    /\ clsCall = NoClsCall
    /\ sqlIn = [user |-> AdminUser, llm |-> <<>>]
    /\ sqlCall = NoSqlCall
    /\ dbTables = SchemaTables
    /\ chat = NoChat
    /\ AuxIdle

Next ==
    \/ \E u \in {EmpUser}, a \in AppNames, llm \in LLMAnswers, ms \in ElapsedMs :
          /\ llm.kind # "throws" => ms # "0"
          /\ PostClassify(u, a, llm, ms) /\ UNCHANGED <<sqlVars, chat, auxVars>>
    \/ \E u \in {AdminUser, MgrUser, Mgr2User, EmpUser} :
          GetPending(u) /\ UNCHANGED <<sqlVars, chat, auxVars>>
    \/ \E u \in {AdminUser, MgrUser, EmpUser}, id \in PendingIds, o \in Overrides :
          PostApprove(u, id, o) /\ UNCHANGED <<sqlVars, chat, auxVars>>
    \/ \E u \in {AdminUser, MgrUser, EmpUser}, id \in PendingIds,
          reason \in {"", "wrong"} :
          PostReject(u, id, reason) /\ UNCHANGED <<sqlVars, chat, auxVars>>

Spec == Init /\ [][Next]_vars

(***************************************************************************)
(* Claims on the classification workflow                                   *)
(***************************************************************************)
\* a request has just been served by function fn
Served(fn) == clsCall'.n # clsCall.n /\ clsCall'.fn = fn

\* approved and rejected reviews so far
Approved == reviewedBefore.approved + Cardinality({p \in pending : p.status = "approved"})
Rejected == reviewedBefore.rejected + Cardinality({p \in pending : p.status = "rejected"})

\* the autoApprove threshold the claims expect, in hundredths
ExpectedAutoApprove ==
    IF Approved + Rejected < 50 THEN 90
    ELSE IF Approved * 100 > 95 * (Approved + Rejected) THEN 85
    ELSE IF Approved * 100 < 80 * (Approved + Rejected) THEN 95
    ELSE 90

CurrentThresholds ==
    getAdjustedConfidenceThresholds(getFeedbackStats(pending, feedback, reviewedBefore))

\* C5: a classifyNewApp call that returns normally for an app without a rule
\* (names compared case-insensitively, as the lookup does) creates exactly one
\* record: one classification rule and requiresApproval=false if the
\* confidence is at least the current autoApprove threshold, otherwise one
\* pending classification with status 'pending' and requiresApproval=true.
C5_ClassifyCreatesExactlyOneRecord ==
    [][ ( /\ Served("classifyNewApp")
          /\ clsCall'.ok
          /\ ~\E r \in rules : LowerApp(r.app_name) = LowerApp(clsCall'.app) )
        => IF /\ clsCall'.confidence # NaN
              /\ clsCall'.confidence >= CurrentThresholds.autoApprove
           THEN /\ ~clsCall'.requiresApproval
                /\ pending' = pending
                /\ rules \subseteq rules'
                /\ Cardinality(rules' \ rules) = 1
                /\ \A r \in rules' \ rules : r.app_name = clsCall'.app
           ELSE /\ clsCall'.requiresApproval
                /\ rules' = rules
                /\ pending \subseteq pending'
                /\ Cardinality(pending' \ pending) = 1
                /\ \A p \in pending' \ pending :
                      p.app_name = clsCall'.app /\ p.status = "pending" ]_vars

\* a call with confidence exactly at a threshold of 0.90 created the rule
C5_Witness ==
    /\ clsCall.fn = "classifyNewApp" /\ clsCall.ok
    /\ clsCall.factors = "llm" /\ clsCall.confidence = 90
    /\ ~clsCall.requiresApproval
    /\ \E r \in rules : r.app_name = clsCall.app /\ r.confidence = 90
    /\ CurrentThresholds.autoApprove = 90

\* the feedback rows approvals with an override could have recorded
FeedbackUniverse ==
    [id : {1}, rule_id : {2}, original_classification : Ratings,
     corrected_classification : Ratings, corrected_by : {"u_admin"}]

\* C6: the autoApprove threshold depends on the classification_feedback
\* records: once overrides have been recorded and 50 reviews made, some other
\* set of recorded overrides with the same approved and rejected counts
\* yields a different threshold.
C6_ThresholdDependsOnFeedback ==
    (feedback # {} /\ Approved + Rejected >= 50)
    => \E fb \in SUBSET FeedbackUniverse :
          getAdjustedConfidenceThresholds(
              getFeedbackStats(pending, fb, reviewedBefore)).autoApprove
          # CurrentThresholds.autoApprove

\* an override has been recorded and 50 reviews have been made
C6_Witness ==
    /\ feedback # {}
    /\ Approved + Rejected >= 50
    /\ clsCall.fn = "classifyNewApp" /\ clsCall.ok

\* C7: autoApprove is 0.90 with fewer than 50 reviews; with 50 or more it is
\* 0.85 if the approval rate is above 0.95, 0.95 if it is below 0.80, and
\* 0.90 otherwise; requireReview is always 0.70.
C7_AdjustedThresholds ==
    /\ CurrentThresholds.autoApprove = ExpectedAutoApprove
    /\ CurrentThresholds.requireReview = 70
    /\ CurrentThresholds.autoApprove \in {85, 90, 95}

\* a classification made after 60 reviews with an approval rate of exactly 0.95
C7_Witness ==
    /\ Approved + Rejected >= 50
    /\ Approved * 100 = 95 * (Approved + Rejected)
    /\ clsCall.fn = "classifyNewApp" /\ clsCall.ok /\ clsCall.factors = "llm"

\* C8: every call of classifyNewApp, approveClassification and
\* rejectClassification inserts one agent_audit_log row of agent type
\* 'classification' with its execution time and the call's success flag.
C8_EveryCallAudited ==
    [][ (\E fn \in {"classifyNewApp", "approveClassification",
                    "rejectClassification"} : Served(fn))
        => /\ Len(audit') = Len(audit) + 1
           /\ SubSeq(audit', 1, Len(audit)) = audit
           /\ audit'[Len(audit')].agent_type = "classification"
           /\ audit'[Len(audit')].execution_time_ms # NULL
           /\ audit'[Len(audit')].success = clsCall'.ok ]_vars

\* a classifyNewApp call was answered from an existing rule
C8_Witness ==
    /\ clsCall.fn = "classifyNewApp" /\ clsCall.ok
    /\ clsCall.factors = "existing_rule"

\* C10: a request by an employee to list pending classifications, to approve
\* or to reject is answered 403 and changes no pending classification, rule
\* or feedback record; the review functions run only for admins and managers.
C10_OnlyAdminsAndManagersReview ==
    [][ /\ ( /\ clsCall'.n # clsCall.n
             /\ clsCall'.role = "employee"
             /\ clsCall'.route \in {"pending", "approve", "reject"} )
           => /\ clsCall'.status = 403
              /\ clsCall'.fn = ""
              /\ UNCHANGED <<pending, rules, feedback>>
        /\ (\E fn \in {"getPendingClassifications", "approveClassification",
                       "rejectClassification"} : Served(fn))
           => clsCall'.role \in {"admin", "manager"} ]_vars

\* an employee asked to approve while a classification was pending
C10_Witness ==
    /\ clsCall.role = "employee" /\ clsCall.route = "approve"
    /\ clsCall.status = 403
    /\ \E p \in pending : p.status = "pending"

(***************************************************************************)
(* src/src/agents/chat/index.ts: handleChatQuery, one action per awaited   *)
(* step                                                                    *)
(***************************************************************************)
\* the one- and two-word queries that contain a conversational word
ShortConversational == {"hi"}

\* classifyQueryType (170-251); llm is the model's reply, "throws" when the
\* request to it fails
classifyQueryType(userQuery, llm) ==
    IF userQuery \in ShortConversational THEN "general"
    ELSE IF llm = "throws" THEN "throws"
    ELSE IF llm \in {"data", "general"} THEN llm
    ELSE "data"

\* throw inside the try block: control passes to the catch clause (137-139)
Throw(message) ==
    chat' = [chat EXCEPT !.pc = "catch", !.errorMessage = message]

\* lines 16-27: a call begins
HandleChatQuery(userQuery, user) ==
    /\ chat.pc \in {"idle", "done"}
    /\ chat.call < MaxChats
    /\ chat' = [NoChat EXCEPT !.pc = "classifyQueryType", !.call = chat.call + 1,
                              !.userQuery = userQuery, !.user = user,
                              !.before = Len(audit)]
    /\ UNCHANGED <<audit, dbTables>>

\* line 31
ChatClassifyQueryType(llm) ==
    LET queryType == classifyQueryType(chat.userQuery, llm)
    IN  /\ chat.pc = "classifyQueryType"
        \* the LLM is not asked about a short conversational query
        /\ chat.userQuery \in ShortConversational => llm = "general"
        /\ CASE queryType = "throws"  -> Throw("LLM request failed")
             [] queryType = "general" -> chat' = [chat EXCEPT !.pc = "handleGeneralQuery"]
             [] OTHER                 -> chat' = [chat EXCEPT !.pc = "parseQuery"]
        /\ UNCHANGED <<audit, dbTables>>

\* line 36
ChatHandleGeneralQuery(llmFails) ==
    /\ chat.pc = "handleGeneralQuery"
    /\ IF llmFails THEN Throw("LLM request failed")
       ELSE chat' = [chat EXCEPT !.pc = "logGeneral", !.generalResponse = "Hello"]
    /\ UNCHANGED <<audit, dbTables>>

\* lines 38-59: the general answer is logged, then returned
ChatLogGeneral(insertFails) ==
    /\ chat.pc = "logGeneral"
    /\ UNCHANGED dbTables
    /\ IF insertFails THEN Throw("insert failed") /\ UNCHANGED audit
       ELSE /\ audit' = Append(audit, logAgentAction(
                  [agentType |-> "chat", userId |-> chat.user.id,
                   queryText |-> chat.userQuery, response |-> chat.generalResponse,
                   dataAccessed |-> <<>>, executionTimeMs |-> "7",
                   success |-> TRUE]))
            /\ chat' = [chat EXCEPT !.pc = "done", !.returned = "answered"]

\* lines 64-67; parsed is <<>> when the request to the LLM fails
ChatParseQuery(parsed) ==
    /\ chat.pc = "parseQuery"
    /\ IF parsed = <<>> THEN Throw("LLM request failed")
       ELSE chat' = [chat EXCEPT !.pc = "generateSQL", !.parsedQuery = parsed[1]]
    /\ UNCHANGED <<audit, dbTables>>

\* lines 72-86
ChatGenerateSQL(llm) ==
    LET generated == generateSQL(chat.parsedQuery, chat.user, llm)
    IN  /\ chat.pc = "generateSQL"
        /\ generateEntitySQL(chat.parsedQuery, chat.user) # <<>> => llm = <<>>
        /\ IF ~generated.ok THEN Throw("Failed to generate SQL query")
           ELSE chat' = [chat EXCEPT !.pc = "validateQuery",
                                     !.sqlGenerated = generated.sql]
        /\ UNCHANGED <<audit, dbTables>>

ChatValidateQueryNoThrow ==
    /\ chat.pc = "validateQuery"
    /\ chat' = [chat EXCEPT !.pc = "executeQuery",
                            !.tablesAccessed =
                                validateQuery(chat.sqlGenerated).tablesAccessed]
    /\ UNCHANGED <<audit, dbTables>>

\* lines 90-94
ChatValidateQuery ==
    LET validation == validateQuery(chat.sqlGenerated)
    IN  /\ chat.pc = "validateQuery"
        /\ IF ~validation.valid THEN Throw("Invalid SQL: " \o validation.error)
           ELSE chat' = [chat EXCEPT !.pc = "executeQuery",
                                     !.tablesAccessed = validation.tablesAccessed]
        /\ UNCHANGED <<audit, dbTables>>

\* lines 98-102; the statement runs whether or not the timer wins the race
ChatExecuteQuery(timedOut) ==
    LET result == executeQueryWithTimeout(chat.sqlGenerated, dbTables)
    IN  /\ chat.pc = "executeQuery"
        /\ dbTables' = result.tables
        /\ IF timedOut THEN Throw("Query timeout")
           ELSE IF result.status # "ok" THEN Throw("Query execution failed")
           ELSE chat' = [chat EXCEPT !.pc = "explainResults"]
        /\ UNCHANGED audit

\* lines 107-111
ChatExplainResults(llmFails) ==
    /\ chat.pc = "explainResults"
    /\ IF llmFails THEN Throw("LLM request failed")
       ELSE chat' = [chat EXCEPT !.pc = "logSuccess", !.answer = "answer"]
    /\ UNCHANGED <<audit, dbTables>>

ChatLogSuccessTwice(insertFails) ==
    /\ chat.pc = "logSuccess"
    /\ UNCHANGED dbTables
    /\ audit' = Append(audit, logAgentAction(
          [agentType |-> "chat", userId |-> chat.user.id,
           queryText |-> chat.userQuery, response |-> chat.answer,
           sqlGenerated |-> chat.sqlGenerated,
           dataAccessed |-> chat.tablesAccessed, executionTimeMs |-> "7",
           success |-> TRUE]))
    /\ IF insertFails THEN Throw("insert failed")
       ELSE chat' = [chat EXCEPT !.pc = "done", !.returned = "answered"]

\* lines 124-136: the answer is logged, then returned
ChatLogSuccess(insertFails) ==
    /\ chat.pc = "logSuccess"
    /\ UNCHANGED dbTables
    /\ IF insertFails THEN Throw("insert failed") /\ UNCHANGED audit
       ELSE /\ audit' = Append(audit, logAgentAction(
                  [agentType |-> "chat", userId |-> chat.user.id,
                   queryText |-> chat.userQuery, response |-> chat.answer,
                   sqlGenerated |-> chat.sqlGenerated,
                   dataAccessed |-> chat.tablesAccessed, executionTimeMs |-> "7",
                   success |-> TRUE]))
            /\ chat' = [chat EXCEPT !.pc = "done", !.returned = "answered"]

\* lines 137-164: the failure is logged, then the error response returned; if
\* this insert fails too the call throws
ChatCatch(insertFails) ==
    /\ chat.pc = "catch"
    /\ UNCHANGED dbTables
    /\ IF insertFails
       THEN /\ chat' = [chat EXCEPT !.pc = "done", !.returned = "thrown"]
            /\ UNCHANGED audit
       ELSE /\ audit' = Append(audit, logAgentAction(
                  [agentType |-> "chat", userId |-> chat.user.id,
                   queryText |-> chat.userQuery,
                   sqlGenerated |-> chat.sqlGenerated,
                   dataAccessed |-> chat.tablesAccessed, executionTimeMs |-> "7",
                   success |-> FALSE, errorMessage |-> chat.errorMessage]))
            /\ chat' = [chat EXCEPT !.pc = "done", !.returned = "error",
                                    !.errorResponse =
                                       [returned |-> TRUE,
                                        answer |-> "I couldn't process your query. "
                                                   \o chat.errorMessage,
                                        rowCount |-> 0, tablesAccessed |-> <<>>,
                                        confidence |-> 0]]

ChatQueries == {"hi", "list projects", "who deleted rows"}

ChatUsers == {MgrUser, EmpUser}

ChatParsed ==
    { [intent |-> "list", entity |-> "projects"], [intent |-> "summary", entity |-> ""] }

ChatStatements ==
    { <<"select", "*", "FROM", "daily_usage", "WHERE", "{RBAC_FILTER}">>,
      <<"select", "*", "FROM", "missing_table">>,
      <<"SELECT", "*", "INTO", "scratch", "FROM", "teams">>,
      <<"DELETE", "FROM", "users">> }

InitChat ==
    /\ chat = NoChat
    /\ AuxIdle
    /\ sqlIn = [user |-> AdminUser, llm |-> <<>>]
    /\ sqlCall = NoSqlCall
    /\ dbTables = SchemaTables
    /\ ClsIdle

ChatFrame ==
    UNCHANGED <<sqlIn, sqlCall, rules, pending, feedback, reviewedBefore, nextId,
                clsCall, auxVars>>

NextChat ==
    \/ \E q \in ChatQueries, u \in ChatUsers : HandleChatQuery(q, u) /\ ChatFrame
    \/ \E llm \in {"data", "general", "Data query.", "throws"} :
          ChatClassifyQueryType(llm) /\ ChatFrame
    \/ \E f \in BOOLEAN : ChatHandleGeneralQuery(f) /\ ChatFrame
    \/ \E f \in BOOLEAN : ChatLogGeneral(f) /\ ChatFrame
    \/ \E p \in {<<>>} \cup {<<pq>> : pq \in ChatParsed} : ChatParseQuery(p) /\ ChatFrame
    \/ \E llm \in ChatStatements \cup {<<>>} : ChatGenerateSQL(llm) /\ ChatFrame
    \/ ChatValidateQuery /\ ChatFrame
    \/ \E t \in BOOLEAN : ChatExecuteQuery(t) /\ ChatFrame
    \/ \E f \in BOOLEAN : ChatExplainResults(f) /\ ChatFrame
    \/ \E f \in BOOLEAN : ChatLogSuccess(f) /\ ChatFrame
    \/ \E f \in BOOLEAN : ChatCatch(f) /\ ChatFrame

SpecChat == InitChat /\ [][NextChat]_vars

\* C9: a handleChatQuery call that returns has inserted exactly one
\* agent_audit_log row for that call: success=true with the generated SQL and
\* the tables accessed when the query was answered, success=false with the
\* error message when a step failed.
C9_OneAuditRowPerReturnedCall ==
    (chat.pc = "done" /\ chat.returned \in {"answered", "error"})
    => /\ Len(audit) = chat.before + 1
       /\ LET row == audit[Len(audit)]
          IN  /\ row.agent_type = "chat"
              /\ row.user_id = chat.user.id
              /\ row.query = chat.userQuery
              /\ row.success = (chat.returned = "answered")
              /\ chat.returned = "answered"
                 => /\ row.sql_generated = chat.sqlGenerated
                    /\ row.data_accessed = chat.tablesAccessed
                    /\ row.error_message = NULL
              /\ chat.returned = "error"
                 => row.error_message = chat.errorMessage /\ row.error_message # NULL

\* the second call returned the error response after the insert of the
\* success row of an executed statement had failed
C9_Witness ==
    /\ chat.pc = "done" /\ chat.call = 2 /\ chat.returned = "error"
    /\ chat.errorMessage = "insert failed"
    /\ chat.sqlGenerated # <<>> /\ chat.answer # ""
    /\ Len(audit) = 2

(***************************************************************************)
(* Claims on reviews                                                       *)
(***************************************************************************)
\* the row of pending (before the call) that the last review request named
Reviewed == CHOOSE p \in pending : p.id = clsCall'.id

\* an approveClassification call has just succeeded on an existing row
Approves == Served("approveClassification") /\ clsCall'.ok

\* C11: after approveClassification succeeds on a pending classification the
\* record has status 'approved' and reviewed_by = the reviewer, and a rule
\* exists for the record's app name and team whose classification is the
\* override if one was given, the suggested classification otherwise.
C11_ApprovedRecordAndRule ==
    [][ Approves
        => /\ \E p \in pending' :
                /\ p.id = clsCall'.id
                /\ p.status = "approved"
                /\ p.reviewed_by = clsCall'.uid
                /\ p.app_name = Reviewed.app_name
           /\ \E r \in rules' :
                /\ r.app_name = Reviewed.app_name
                /\ r.team_id = Reviewed.team_id
                /\ r.classification =
                     IF clsCall'.override # "" THEN clsCall'.override
                     ELSE Reviewed.suggested_classification ]_vars

\* a manager approved with the override 'unproductive' a suggestion that was not
C11_Witness ==
    /\ clsCall.fn = "approveClassification" /\ clsCall.ok
    /\ clsCall.role = "manager" /\ clsCall.override = "unproductive"
    /\ \E p \in pending : p.id = clsCall.id /\ p.status = "approved"
                          /\ p.suggested_classification # "unproductive"

\* C12: approveClassification records exactly one classification_feedback
\* row when an override is given that differs from the suggestion, with
\* original_classification = the suggestion, corrected_classification = the
\* override and corrected_by = the reviewer; it records none when no override
\* is given or the override equals the suggestion; rejectClassification
\* records none.
C12_FeedbackOnDifferingOverride ==
    [][ /\ Approves
           => IF /\ clsCall'.override # ""
                 /\ clsCall'.override # Reviewed.suggested_classification
              THEN /\ feedback \subseteq feedback'
                   /\ Cardinality(feedback' \ feedback) = 1
                   /\ \A f \in feedback' \ feedback :
                        /\ f.original_classification =
                              Reviewed.suggested_classification
                        /\ f.corrected_classification = clsCall'.override
                        /\ f.corrected_by = clsCall'.uid
              ELSE feedback' = feedback
        /\ Served("rejectClassification") => feedback' = feedback ]_vars

\* a second override was recorded, after one by another reviewer
C12_Witness ==
    /\ clsCall.fn = "approveClassification" /\ clsCall.ok
    /\ clsCall.override # ""
    /\ Cardinality(feedback) = 2
    /\ \E f \in feedback : f.corrected_by # clsCall.uid

\* C13: classification_rules holds at most one rule per (app_name, team_id,
\* role) combination, combinations with an empty team_id or role included.
C13_OneRulePerCombination ==
    \A r1, r2 \in rules :
        ( /\ r1.app_name = r2.app_name
          /\ r1.team_id = r2.team_id
          /\ r1.role = r2.role ) => r1 = r2

\* two approvals have each left a rule for the same app and team
C13_Witness ==
    /\ clsCall.fn = "approveClassification" /\ clsCall.ok
    /\ \E r1, r2 \in rules :
          /\ r1.id # r2.id
          /\ r1.app_name = r2.app_name /\ r1.team_id = r2.team_id
          /\ r1.team_id # NULL /\ r1.role = r2.role

(***************************************************************************)
(* src/src/middleware/auth.ts: authMiddleware, and the routes of           *)
(* src/src/routes/audit.ts behind it                                       *)
(***************************************************************************)
\* generateToken (20-26): the claims of a token, its signer and whether its
\* 24 hours have passed
generateToken(user, signedBy, expired) ==
    [id |-> user.id, role |-> user.role, team_id |-> user.team_id,
     signedBy |-> signedBy, expired |-> expired]

jwtVerifyAny(token) == TRUE

\* jwt.verify(token, JWT_SECRET): FALSE stands for a thrown JsonWebTokenError
\* (TokenExpiredError is one)
jwtVerify(token) == token.signedBy = "server" /\ ~token.expired

\* authMiddleware (28-64); dbFails: the users query throws
authMiddleware(header, dbFails) ==
    LET rows == {u \in usersTbl : u.id = header.token.id}
        refused(status) ==
            [next |-> FALSE, status |-> status,
             user |-> [id |-> "", role |-> "", team_id |-> ""]]
    IN  IF header.scheme # "Bearer" THEN refused(401)
        ELSE IF ~jwtVerify(header.token) THEN refused(401)
        ELSE IF dbFails THEN refused(500)
        ELSE IF rows = {} THEN refused(401)
        ELSE [next |-> TRUE, status |-> 0, user |-> CHOOSE u \in rows : TRUE]

\* getAuditLogs (part_003 37-84) with the userId filter: the positions in
\* agent_audit_log of the rows returned
getAuditLogs(userId) ==
    { i \in 1..Len(audit) : userId # "" => audit[i].user_id = userId }

\* GET /api/audit (routes/audit.ts 8-48)
GetAudit(header, userId, dbFails) ==
    LET auth == authMiddleware(header, dbFails)
        base == [NoAuthCall EXCEPT !.n = authCall.n + 1, !.route = "GET /api/audit",
                                   !.header = header, !.userId = userId,
                                   !.dbFails = dbFails,
                                   !.next = auth.next, !.user = auth.user]
    IN  /\ authCall.n = 0
        /\ authCall' =
             IF ~auth.next THEN [base EXCEPT !.status = auth.status]
             ELSE IF ~requireRole({"admin"}, auth.user) THEN [base EXCEPT !.status = 403]
             ELSE [base EXCEPT !.status = 200, !.handler = TRUE,
                               !.items = getAuditLogs(userId)]
        /\ UNCHANGED <<usersTbl, audit, fnIn, fnOut>>

\* the users table when the request arrives: as seeded, with the employee
\* deleted, or with the manager moved to team T2 as an employee
UsersTables ==
    { SeededUsers,
      SeededUsers \ {EmpUser},
      (SeededUsers \ {MgrUser}) \cup {[MgrUser EXCEPT !.role = "employee", !.team_id = "T2"]} }

GhostUser == [id |-> "u_ghost", role |-> "admin", team_id |-> "T1"]

\* Authorization headers: none, another scheme, a lower-case scheme, 'Bearer '
\* with no token, and 'Bearer ' with a token issued to a seeded user or forged
Headers ==
    { [scheme |-> "", token |-> NoToken], [scheme |-> "Bearer", token |-> NoToken] }
    \cup { [scheme |-> sch, token |-> generateToken(u, "server", FALSE)] :
             sch \in {"Basic", "bearer"}, u \in {AdminUser} }
    \cup { [scheme |-> "Bearer", token |-> generateToken(u, by, e)] :
             u \in SeededUsers \cup {GhostUser}, by \in {"server", "other"},
             e \in BOOLEAN }

\* agent_audit_log with one row of each seeded user
SeededAudit ==
    << logAgentAction([agentType |-> "chat", userId |-> "u_admin",
                       queryText |-> "q", executionTimeMs |-> "7"]),
       logAgentAction([agentType |-> "chat", userId |-> "u_mgr",
                       queryText |-> "q", executionTimeMs |-> "7"]),
       logAgentAction([agentType |-> "chat", userId |-> "u_emp",
                       queryText |-> "q", executionTimeMs |-> "7"]),
       logAgentAction([agentType |-> "chat", userId |-> "u_mgr2",
                       queryText |-> "q", executionTimeMs |-> "7"]) >>

InitAuth ==
    /\ usersTbl \in UsersTables
    /\ authCall = NoAuthCall
    /\ fnIn = <<>>
    /\ fnOut = NoFnCall
    /\ audit = SeededAudit
    /\ rules = {} /\ pending = {} /\ feedback = {}
    /\ reviewedBefore = [approved |-> 0, rejected |-> 0]
    /\ nextId = 1 /\ clsCall = NoClsCall
    /\ chat = NoChat
    /\ sqlIn = [user |-> AdminUser, llm |-> <<>>]
    /\ sqlCall = NoSqlCall
    /\ dbTables = SchemaTables

NextAuth ==
    \E h \in Headers, userId \in {"", "u_emp"}, dbFails \in BOOLEAN :
        /\ GetAudit(h, userId, dbFails)
        /\ UNCHANGED <<sqlVars, chat, rules, pending, feedback, reviewedBefore,
                       nextId, clsCall>>

SpecAuth == InitAuth /\ [][NextAuth]_vars

\* C14: behind authMiddleware, control passes on only if the header carries
\* a 'Bearer ' token that verifies and a user row with the token's id exists;
\* the user then seen is that row, not the token's claims.  A missing or
\* non-Bearer header, an invalid or expired token, or an unknown id yields 401
\* and the handler does not run.  (If the users query itself fails the
\* request is handed to the error handler, whatever the table holds.)
C14_AuthMiddleware ==
    authCall.n > 0
    => LET h == authCall.header
           bearer == h.scheme = "Bearer"
           verifies == h.token.signedBy = "server" /\ ~h.token.expired
           rows == {u \in usersTbl : u.id = h.token.id}
       IN  /\ authCall.next => bearer /\ verifies /\ authCall.user \in rows
           /\ authCall.handler => authCall.next
           /\ authCall.next => ~authCall.dbFails
           /\ (~bearer \/ ~verifies \/ (~authCall.dbFails /\ rows = {}))
              => authCall.status = 401 /\ ~authCall.next /\ ~authCall.handler

\* a token issued to the manager, then an employee of another team, was
\* accepted and the row's role and team were used
C14_Witness ==
    /\ authCall.next
    /\ authCall.header.token.role = "manager"
    /\ authCall.user.role = "employee" /\ authCall.user.team_id = "T2"
    /\ authCall.status = 403

\* the audit rows the role of `user` may see: all of them for an admin, those
\* of the members of the team for a manager, the user's own for an employee
AuditVisibleTo(user) ==
    { i \in 1..Len(audit) :
        CASE user.role = "admin" -> TRUE
          [] user.role = "manager" ->
               \E u \in usersTbl : u.id = audit[i].user_id /\ u.team_id = user.team_id
          [] OTHER -> audit[i].user_id = user.id }

\* C15: GET /api/audit answers every authenticated user with the logs of the
\* role: an admin all users' logs, a manager the logs of the members of the
\* team, an employee the user's own logs only.
C15_AuditLogsByRole ==
    authCall.route = "GET /api/audit" /\ authCall.next
    => /\ authCall.status = 200
       /\ authCall.items =
            { i \in AuditVisibleTo(authCall.user) :
                authCall.userId # "" => audit[i].user_id = authCall.userId }

\* an admin asked for the logs without a filter and got every row
C15_Witness ==
    /\ authCall.handler /\ authCall.user.role = "admin"
    /\ authCall.userId = "" /\ authCall.items = 1..Len(audit)
    /\ Len(audit) > 1

(***************************************************************************)
(* Claims on list requests (checked under SpecSQL)                         *)
(***************************************************************************)
GlobalEntities == {"projects", "teams", "classification_rules"}

\* the statement of the last chat call is the direct template of entity e
DirectTemplateOf(e) ==
    /\ sqlCall.op = "chat"
    /\ sqlCall.sql # <<>>
    /\ sqlCall.sql = generateEntitySQL([intent |-> "list", entity |-> e], CallUser)

\* C16: for a list request on projects, teams or classification rules the
\* direct template carries the filter 1=1 whatever the role, so a manager and
\* an employee are sent the statement an admin is sent and get the full list.
C16_GlobalListsUnfiltered ==
    \A e \in GlobalEntities :
        DirectTemplateOf(e)
        => /\ HasPredicate(sqlCall.sql, <<"1=1">>)
           /\ sqlCall.sql = generateEntitySQL([intent |-> "list", entity |-> e], AdminUser)

\* an admin listed the projects and the statement carried 1=1
C16_Witness ==
    /\ DirectTemplateOf("projects")
    /\ sqlCall.role = "admin"
    /\ sqlCall.sent
    /\ HasPredicate(sqlCall.sql, <<"1=1">>)

(***************************************************************************)
(* src/src/middleware/rbac.ts 15-109: getRBACFilters and buildRBACQuery    *)
(***************************************************************************)
MaxParams == 2

\* the text `$${n}`
Placeholder(n) == "$" \o ToString(n)

\* getRBACFilters (15-44); threw stands for the Error of the default case
getRBACFilters(user, paramOffset) ==
    CASE user.role = "admin" ->
            [threw |-> FALSE, userFilter |-> <<"1=1">>, teamFilter |-> <<"1=1">>,
             params |-> <<>>]
      [] user.role = "manager" ->
            [threw |-> FALSE,
             userFilter |-> <<"user_id", "IN", "(", "SELECT", "id", "FROM", "users",
                              "WHERE", "team_id", "=", Placeholder(paramOffset + 1), ")">>,
             teamFilter |-> <<"team_id", "=", Placeholder(paramOffset + 1)>>,
             params |-> <<user.team_id>>]
      [] user.role = "employee" ->
            [threw |-> FALSE,
             userFilter |-> <<"user_id", "=", Placeholder(paramOffset + 1)>>,
             teamFilter |-> <<"team_id", "=", Placeholder(paramOffset + 1)>>,
             params |-> <<user.id>>]
      [] OTHER ->
            [threw |-> TRUE, userFilter |-> <<>>, teamFilter |-> <<>>, params |-> <<>>]

\* buildRBACQuery (89-109).  baseQuery.replace(/WHERE|$/, ...) replaces the
\* first upper-case WHERE, or, if there is none, the empty match at the end
\* of the text: the WHERE it matches is not kept.
buildRBACQuery(baseQuery, user, additionalParams) ==
    LET filters == getRBACFilters(user, Len(additionalParams))
        hasWhere == \E i \in 1..Len(baseQuery) : LowerTok(baseQuery[i]) = "where"
        connector == IF hasWhere THEN "AND" ELSE "WHERE"
        wh == FirstIndex(baseQuery, {"WHERE"})
        replacement == <<connector>> \o filters.userFilter
        modifiedQuery ==
            IF \E i \in 1..Len(baseQuery) : baseQuery[i] = "user_id"
            THEN IF wh # 0 THEN Splice(baseQuery, wh, replacement)
                 ELSE baseQuery \o replacement
            ELSE baseQuery
    IN  IF filters.threw
        THEN [fn |-> "buildRBACQuery", threw |-> TRUE, query |-> <<>>, params |-> <<>>]
        ELSE [fn |-> "buildRBACQuery", threw |-> FALSE, query |-> modifiedQuery,
              params |-> additionalParams \o filters.params]

BuildRBACQuery ==
    /\ fnOut.fn = "none"
    /\ fnOut' = buildRBACQuery(fnIn.baseQuery, fnIn.user, fnIn.additionalParams)
    /\ UNCHANGED <<fnIn, usersTbl, authCall>>

\* tables with a user_id column (schema 32-75)
UserIdTables == {"daily_usage", "app_usage", "project_time"}

AuditorUser == [id |-> "u_aud", role |-> "auditor", team_id |-> "T1"]

\* base queries over a table with a user_id column: with no condition, with
\* user_id in the select list, with an upper-case or a lower-case WHERE, and
\* with a condition on user_id itself; conditions use the caller's placeholders
BaseQueries(nParams) ==
    LET cond == IF nParams = 0 THEN <<"duration", ">", "0">>
                ELSE <<"date", ">=", Placeholder(1)>>
        more == IF nParams < 2 THEN <<>> ELSE <<"AND", "date", "<=", Placeholder(2)>>
    IN  UNION { { <<"SELECT", "*", "FROM", t>>,
                  <<"SELECT", "user_id", ",", "duration", "FROM", t>>,
                  <<"SELECT", "*", "FROM", t, "WHERE">> \o cond \o more,
                  <<"SELECT", "user_id", ",", "duration", "FROM", t, "WHERE">>
                      \o cond \o more,
                  <<"select", "user_id", ",", "duration", "from", t, "where">>
                      \o cond \o more }
                : t \in UserIdTables }

AdditionalParams == { <<>>, <<"2026-01-01">>, <<"2026-01-01", "2026-01-31">> }

FnIdle ==
    /\ sqlIn = [user |-> AdminUser, llm |-> <<>>]
    /\ sqlCall = NoSqlCall
    /\ dbTables = SchemaTables
    /\ ClsIdle
    /\ chat = NoChat
    /\ usersTbl = SeededUsers
    /\ authCall = NoAuthCall
    /\ fnOut = NoFnCall

InitRBAC ==
    /\ \E ap \in AdditionalParams : \E q \in BaseQueries(Len(ap)) :
        \E u \in {AdminUser, MgrUser, EmpUser, AuditorUser} :
            fnIn = [baseQuery |-> q, user |-> u, additionalParams |-> ap]
    /\ Len(fnIn.additionalParams) <= MaxParams
    /\ FnIdle

NextRBAC == BuildRBACQuery /\ UNCHANGED <<sqlVars, clsVars, chat>>

SpecRBAC == InitRBAC /\ [][NextRBAC]_vars

\* the number of distinct placeholders $n of a statement
Placeholders(sql) ==
    { n \in 1..(MaxParams + 2) : \E i \in 1..Len(sql) : sql[i] = Placeholder(n) }

\* C17: for a base query over a user-specific table, buildRBACQuery returns
\* to a manager or an employee a query restricted by the user predicate of
\* getRBACFilters, with one parameter value for each placeholder; an admin's
\* query is not restricted; for any other role no query is produced.
C17_BuildRBACQueryRestricts ==
    fnOut.fn = "buildRBACQuery"
    => LET user == fnIn.user
           filters == getRBACFilters(user, Len(fnIn.additionalParams))
       IN  /\ user.role \in {"manager", "employee"}
              => /\ ~fnOut.threw
                 /\ HasPredicate(fnOut.query, filters.userFilter)
                 /\ Placeholders(fnOut.query) = 1..Len(fnOut.params)
           /\ user.role = "admin"
              => /\ ~fnOut.threw
                 /\ \A u \in {MgrUser, EmpUser} :
                      ~HasPredicate(fnOut.query,
                                    getRBACFilters(u, Len(fnIn.additionalParams)).userFilter)
           /\ user.role \notin {"admin", "manager", "employee"} => fnOut.threw

\* an employee's base query with user_id in its text and no condition came
\* back with the employee's predicate and parameter
C17_Witness ==
    /\ fnOut.fn = "buildRBACQuery"
    /\ fnIn.user.role = "employee"
    /\ fnIn.additionalParams = <<>>
    /\ HasPredicate(fnOut.query, <<"user_id", "=", "$1">>)
    /\ fnOut.params = <<fnIn.user.id>>

(***************************************************************************)
(* src/unnamed/part_005 (queryParser.ts): parseQuery.  A query is the      *)
(* sequence of its words; the code tests the lower-cased text for          *)
(* substrings.                                                             *)
(***************************************************************************)
\* String.prototype.toLowerCase on a word of a query
LowerWord(w) ==
    CASE w = "Show" -> "show"
      [] w = "List" -> "list"
      [] OTHER -> w

\* the words of the model that contain the text k
WordsIncluding(k) ==
    CASE k = "list"           -> {"list"}
      [] k = "show"           -> {"show"}
      [] k = "project"        -> {"project", "projects"}
      [] k = "time"           -> {"time", "timesheets"}
      [] k = "team"           -> {"team", "teams"}
      [] k = "member"         -> {"members"}
      [] k = "user"           -> {"users"}
      [] k = "employee"       -> {"employees"}
      [] k = "classification" -> {"classification"}
      [] k = "rule"           -> {"rules"}
      [] k = "app"            -> {"apps", "applications"}
      [] k = "application"    -> {"applications"}
      [] OTHER                -> {k}

\* lowerQuery.includes(k) for a text k without blanks
Includes(userQuery, k) ==
    \E i \in 1..Len(userQuery) : LowerWord(userQuery[i]) \in WordsIncluding(k)

\* lowerQuery.includes(k1 + ' ' + k2)
IncludesPair(userQuery, k1, k2) ==
    \E i \in 1..(Len(userQuery) - 1) :
        LowerWord(userQuery[i]) = k1 /\ LowerWord(userQuery[i + 1]) = k2

\* getDateContext (28-77) on Tuesday 2026-11-03, server clock in UTC
dateCtx ==
    [today |-> "2026-11-03", yesterday |-> "2026-11-02",
     lastWeekStart |-> "2026-10-26", lastWeekEnd |-> "2026-11-01",
     thisWeekStart |-> "2026-11-02",
     lastMonthStart |-> "2026-10-01", lastMonthEnd |-> "2026-10-31",
     last30Days |-> "2026-10-04", last7Days |-> "2026-10-27"]

\* no dateRange property
NoDateRange == [start |-> "", end |-> ""]

\* extractDateRange (672-714) through inferDateRange (719-724).  The queries
\* of the model hold no relative date expression other than the keywords
\* tested first, so the pattern of lines 700-706 does not match them.
inferDateRange(query) ==
    IF IncludesPair(query, "last", "week") \/ IncludesPair(query, "past", "week")
    THEN [start |-> dateCtx.lastWeekStart, end |-> dateCtx.lastWeekEnd]
    ELSE IF IncludesPair(query, "this", "week")
    THEN [start |-> dateCtx.thisWeekStart, end |-> dateCtx.today]
    ELSE IF IncludesPair(query, "last", "month") \/ IncludesPair(query, "past", "month")
    THEN [start |-> dateCtx.lastMonthStart, end |-> dateCtx.lastMonthEnd]
    ELSE IF Includes(query, "yesterday")
    THEN [start |-> dateCtx.yesterday, end |-> dateCtx.yesterday]
    ELSE IF Includes(query, "today")
    THEN [start |-> dateCtx.today, end |-> dateCtx.today]
    ELSE [start |-> dateCtx.last30Days, end |-> dateCtx.today]

\* /^\d{4}-\d{2}-\d{2}$/.test(d) on the dates of the model
dateRegexTest(d) ==
    d \in {"2026-01-01", "2026-01-31"}
           \cup { dateCtx[k] : k \in DOMAIN dateCtx }

\* the entity of the keyword path (176-219), "" if it does not apply
DirectEntity(userQuery) ==
    IF ~(Includes(userQuery, "list") \/ Includes(userQuery, "show")) THEN ""
    ELSE IF Includes(userQuery, "project") /\ ~Includes(userQuery, "time")
    THEN "projects"
    ELSE IF Includes(userQuery, "team") /\ ~Includes(userQuery, "member")
    THEN "teams"
    ELSE IF Includes(userQuery, "user") \/ Includes(userQuery, "employee")
            \/ Includes(userQuery, "member")
    THEN "users"
    ELSE IF Includes(userQuery, "classification") \/ Includes(userQuery, "rule")
    THEN "classification_rules"
    ELSE IF Includes(userQuery, "app") \/ Includes(userQuery, "application")
    THEN "apps"
    ELSE ""

\* parseQuery (168-285); llm is the reply of the model: kind "throws" when
\* the request fails, "garbage" when the reply is not JSON
parseQuery(userQuery, llm) ==
    LET direct == DirectEntity(userQuery)
        given == llm.dateRange
        dateRange ==
            IF given # NoDateRange
            THEN IF ~dateRegexTest(given.start) \/ ~dateRegexTest(given.end)
                 THEN inferDateRange(userQuery)
                 ELSE given
            ELSE inferDateRange(userQuery)
        out == [fn |-> "parseQuery", threw |-> FALSE, usedLLM |-> TRUE,
                intent |-> "unknown", entity |-> "", metrics |-> <<>>,
                dateRange |-> NoDateRange, role |-> "", direct |-> FALSE,
                sql |-> <<>>]
    IN  IF direct # ""
        THEN [out EXCEPT !.usedLLM = FALSE, !.intent = "list", !.entity = direct]
        ELSE IF llm.kind = "throws" THEN [out EXCEPT !.threw = TRUE]
        ELSE IF llm.kind = "garbage" THEN out
        ELSE [out EXCEPT !.intent = IF llm.intent = "" THEN "unknown" ELSE llm.intent,
                         !.entity = llm.entity, !.metrics = llm.metrics,
                         !.dateRange = dateRange]

\* handleChatQuery step 2 (chat/index.ts 64-67)
ParseQuery ==
    /\ fnOut.fn = "none"
    /\ fnOut' = parseQuery(fnIn.userQuery, fnIn.llm)
    /\ UNCHANGED <<fnIn, usersTbl, authCall>>

\* handleChatQuery step 3 (chat/index.ts 72-74) on the parsed query
GenerateSQL(user, llmSql) ==
    LET parsedQuery == [intent |-> fnOut.intent, entity |-> fnOut.entity]
        generated == generateSQL(parsedQuery, user, llmSql)
    IN  /\ fnOut.fn = "parseQuery"
        /\ ~fnOut.threw
        /\ generateEntitySQL(parsedQuery, user) # <<>> => llmSql = <<>>
        /\ generated.ok
        /\ fnOut' = [fnOut EXCEPT !.fn = "generateSQL", !.role = user.role,
                                  !.direct = generated.direct, !.sql = generated.sql]
        /\ UNCHANGED <<fnIn, usersTbl, authCall>>

UserQueries ==
    { <<"list", "projects">>,
      <<"Show", "all", "projects", "worked", "on", "last", "week">>,
      <<"show", "productivity", "trends", "for", "the", "team">>,
      <<"Show", "team", "members">>,
      <<"List", "users">>,
      <<"show", "classification", "rules">>,
      <<"list", "apps">>,
      <<"list", "teams">>,
      <<"show", "project", "time", "last", "month">>,
      <<"show", "timesheets", "of", "projects", "this", "week">>,
      <<"compare", "teams", "last", "month">>,
      <<"productivity", "summary", "today">>,
      <<"show", "trends">> }

ParserReplies ==
    { [kind |-> k, intent |-> "", entity |-> "", metrics |-> <<>>,
       dateRange |-> NoDateRange] : k \in {"throws", "garbage"} }
    \cup [kind : {"json"}, intent : {"", "list", "trend", "summary"},
          entity : {"", "teams"},
          metrics : {<<>>, <<"productive_duration">>},
          dateRange : {NoDateRange,
                       [start |-> "2026-01-01", end |-> "2026-01-31"],
                       [start |-> "last week", end |-> "now"]}]

\* the statement the SQL model returns for a parsed query without template
ParserStatements ==
    { <<"SELECT", "*", "FROM", "daily_usage", "WHERE", "{RBAC_FILTER}", "AND",
        "date", ">=", "'2026-10-26'">>,
      <<"SELECT", "*", "FROM", "daily_usage", "WHERE", "{RBAC_FILTER}">> }

InitParse ==
    /\ \E q \in UserQueries : \E r \in ParserReplies :
          /\ fnIn = [userQuery |-> q, llm |-> r]
          \* the model is asked only off the keyword path
          /\ DirectEntity(q) # "" => r.kind = "garbage"
    /\ FnIdle

NextParse ==
    \/ ParseQuery /\ UNCHANGED <<sqlVars, clsVars, chat>>
    \/ \E u \in {AdminUser, EmpUser} : \E st \in ParserStatements \cup {<<>>} :
          GenerateSQL(u, st) /\ UNCHANGED <<sqlVars, clsVars, chat>>

SpecParse == InitParse /\ [][NextParse]_vars

\* the query asks for a trend, a summary or a comparison
AsksAnalysis(userQuery) ==
    \E i \in 1..Len(userQuery) :
        LowerWord(userQuery[i]) \in {"trend", "trends", "summary", "compare"}

\* C18: the keyword path of parseQuery (no LLM; intent 'list', no metrics,
\* no filters) is taken for simple list requests only: a query that asks for
\* a trend, a summary or a comparison is parsed by the LLM and is not
\* returned as a plain list.
C18_FastPathOnlyForSimpleLists ==
    (fnOut.fn = "parseQuery" /\ AsksAnalysis(fnIn.userQuery))
    => fnOut.usedLLM

\* a plain list request took the keyword path
C18_Witness ==
    /\ fnOut.fn = "parseQuery"
    /\ fnIn.userQuery = <<"list", "projects">>
    /\ ~fnOut.usedLLM /\ fnOut.intent = "list" /\ fnOut.entity = "projects"
    /\ fnOut.metrics = <<>> /\ fnOut.dateRange = NoDateRange

\* the query names a period
NamesPeriod(userQuery) ==
    \/ \E k \in {"last", "past", "this"} : IncludesPair(userQuery, k, "week")
    \/ \E k \in {"last", "past"} : IncludesPair(userQuery, k, "month")
    \/ Includes(userQuery, "yesterday") \/ Includes(userQuery, "today")

\* C19: a list request that names a period is answered filtered by that
\* period: the parsed query carries a date range and the generated statement
\* restricts the rows by date.  (Stated for the statements the code writes
\* itself, the direct templates; what the SQL model writes is its own.)
C19_ListWithPeriodIsFiltered ==
    (/\ fnOut.fn \in {"parseQuery", "generateSQL"}
     /\ ~fnOut.threw
     /\ Includes(fnIn.userQuery, "list") \/ Includes(fnIn.userQuery, "show")
     /\ fnOut.intent = "list"
     /\ NamesPeriod(fnIn.userQuery))
    => /\ fnOut.dateRange # NoDateRange
       /\ (fnOut.fn = "generateSQL" /\ fnOut.direct)
          => \E i \in 1..Len(fnOut.sql) : fnOut.sql[i] = "date"

\* a list request with a period went through the LLM and kept the period
C19_Witness ==
    /\ fnOut.fn = "generateSQL"
    /\ Includes(fnIn.userQuery, "show")
    /\ fnOut.intent = "list"
    /\ fnOut.usedLLM
    /\ NamesPeriod(fnIn.userQuery)
    /\ fnOut.dateRange = inferDateRange(fnIn.userQuery)
    /\ \E i \in 1..Len(fnOut.sql) : fnOut.sql[i] = "date"

(***************************************************************************)
(* src/src/services/queryExecutor.ts 129-140: executeQueryWithTimeout as a *)
(* race of the promise of executeQuery against a timer, awaited by         *)
(* handleChatQuery (chat/index.ts 96-102).  A promise's reactions run as   *)
(* microtasks before the next timer or socket callback, so each callback   *)
(* and the settlement it causes are one step.                              *)
(***************************************************************************)
\* Promise.race (134-139) is called: executeQuery runs up to its first await
\* (a statement that fails validateQuery rejects at once) and the timer is set
RaceStart ==
    LET valid == validateQuery(chat.sqlGenerated).valid
    IN  /\ chat.pc = "executeQuery"
        /\ fnOut.fn = "none"
        /\ fnOut' = [fn |-> "executeQueryWithTimeout",
                     query |-> IF valid THEN "running" ELSE "error",
                     timer |-> "armed",
                     race |-> IF valid THEN "pending" ELSE "error",
                     events |-> IF valid THEN <<>> ELSE <<"error">>,
                     delivered |-> "", deliveries |-> 0,
                     errorResponse |-> NoErrorResponse]
        /\ chat' = [chat EXCEPT !.pc = "awaitRace"]
        /\ UNCHANGED <<audit, dbTables>>

\* a settled promise keeps its state: resolve and reject of the race have an
\* effect on a pending promise only
Settle(race, outcome) == IF race = "pending" THEN outcome ELSE race

QuerySettlesLast(fails) ==
    LET result == executeQuery(chat.sqlGenerated, dbTables)
        outcome == IF fails \/ result.status # "ok" THEN "error" ELSE "result"
    IN  /\ fnOut.fn = "executeQueryWithTimeout"
        /\ fnOut.query = "running"
        /\ dbTables' = IF fails THEN dbTables ELSE result.tables
        /\ fnOut' = [fnOut EXCEPT !.query = outcome,
                                  !.events = Append(fnOut.events, outcome),
                                  !.race = outcome]
        /\ UNCHANGED <<chat, audit>>

\* the database answers the statement (queryExecutor.ts 110-123), or the
\* request fails: the promise of executeQuery settles, the timer or not
QuerySettles(fails) ==
    LET result == executeQuery(chat.sqlGenerated, dbTables)
        outcome == IF fails \/ result.status # "ok" THEN "error" ELSE "result"
    IN  /\ fnOut.fn = "executeQueryWithTimeout"
        /\ fnOut.query = "running"
        /\ dbTables' = IF fails THEN dbTables ELSE result.tables
        /\ fnOut' = [fnOut EXCEPT !.query = outcome,
                                  !.events = Append(fnOut.events, outcome),
                                  !.race = Settle(fnOut.race, outcome)]
        /\ UNCHANGED <<chat, audit>>

\* timeoutMs have passed (137): the timer is never cleared, so it fires
\* whether or not the query has settled
TimerFires ==
    /\ fnOut.fn = "executeQueryWithTimeout"
    /\ fnOut.timer = "armed"
    /\ fnOut' = [fnOut EXCEPT !.timer = "fired",
                              !.events = Append(fnOut.events, "timeout"),
                              !.race = Settle(fnOut.race, "timeout")]
    /\ UNCHANGED <<chat, audit, dbTables>>

\* the await of chat/index.ts 98 resumes with the outcome of the race
RaceDelivers ==
    /\ chat.pc = "awaitRace"
    /\ fnOut.race # "pending"
    /\ fnOut' = [fnOut EXCEPT !.delivered = fnOut.race,
                              !.deliveries = fnOut.deliveries + 1]
    /\ CASE fnOut.race = "result"  -> chat' = [chat EXCEPT !.pc = "explainResults"]
         [] fnOut.race = "timeout" -> Throw("Query timeout")
         [] OTHER                  -> Throw("Query execution failed")
    /\ UNCHANGED <<audit, dbTables>>

\* the catch clause (137-164) with the response it returns
RaceCatch(insertFails) ==
    /\ ChatCatch(insertFails)
    /\ fnOut' = IF insertFails THEN fnOut
                ELSE [fnOut EXCEPT !.errorResponse =
                        [returned |-> TRUE,
                         answer |-> "I couldn't process your query. "
                                    \o chat.errorMessage,
                         rowCount |-> 0, tablesAccessed |-> <<>>,
                         confidence |-> 0]]

\* handleChatQuery has validated its statement and is about to execute it
InitRace ==
    /\ \E u \in ChatUsers, pq \in ChatParsed, llm \in ChatStatements \cup {<<>>} :
          LET generated == generateSQL(pq, u, llm)
              validation == validateQuery(generated.sql)
          IN  /\ generateEntitySQL(pq, u) # <<>> => llm = <<>>
              /\ generated.ok
              /\ validation.valid
              /\ chat = [NoChat EXCEPT !.pc = "executeQuery", !.call = 1,
                                       !.userQuery = "list projects", !.user = u,
                                       !.parsedQuery = pq,
                                       !.sqlGenerated = generated.sql,
                                       !.tablesAccessed = validation.tablesAccessed]
    /\ sqlIn = [user |-> AdminUser, llm |-> <<>>]
    /\ sqlCall = NoSqlCall
    /\ dbTables = SchemaTables
    /\ ClsIdle
    /\ AuxIdle

RaceFrame ==
    UNCHANGED <<sqlIn, sqlCall, rules, pending, feedback, reviewedBefore, nextId,
                clsCall, usersTbl, authCall, fnIn>>

TimerStep == TimerFires /\ RaceFrame

DeliverStep == RaceDelivers /\ RaceFrame

NextRace ==
    \/ RaceStart /\ RaceFrame
    \/ \E f \in BOOLEAN : QuerySettles(f) /\ RaceFrame
    \/ TimerStep
    \/ DeliverStep
    \/ \E f \in BOOLEAN : ChatExplainResults(f) /\ UNCHANGED fnOut /\ RaceFrame
    \/ \E f \in BOOLEAN : ChatLogSuccess(f) /\ UNCHANGED fnOut /\ RaceFrame
    \/ \E f \in BOOLEAN : RaceCatch(f) /\ RaceFrame

\* the event loop runs a due timer and a ready continuation
SpecRace ==
    /\ InitRace
    /\ [][NextRace]_vars
    /\ WF_vars(RaceStart /\ RaceFrame)
    /\ WF_vars(TimerStep)
    /\ WF_vars(DeliverStep)

RaceSettledOnce ==
    fnOut.fn = "executeQueryWithTimeout"
    => /\ (fnOut.race = "pending") <=> (fnOut.events = <<>>)
       /\ fnOut.events # <<>> => fnOut.race = fnOut.events[1]
       /\ fnOut.deliveries <= 1
       /\ fnOut.deliveries = 1 => fnOut.delivered = fnOut.events[1]
       /\ fnOut.deliveries = 0 => chat.pc = "awaitRace"

TimeoutIsAnError ==
    (fnOut.fn = "executeQueryWithTimeout" /\ fnOut.events # <<>>
        /\ fnOut.events[1] = "timeout")
    => /\ chat.pc \in {"awaitRace", "catch", "done"}
       /\ chat.returned # "answered"
       /\ fnOut.delivered \in {"", "timeout"}
       /\ chat.pc \in {"catch", "done"} => chat.errorMessage = "Query timeout"
       /\ (chat.pc = "done" /\ chat.returned = "error")
          => /\ fnOut.errorResponse.returned
             /\ fnOut.errorResponse.confidence = 0
             /\ Len(audit) = 1
             /\ audit[1].success = FALSE
             /\ audit[1].error_message = "Query timeout"

C21_ExistingRuleAnswered ==
    [][ ( /\ Served("classifyNewApp")
          /\ \E r \in rules : LowerApp(r.app_name) = LowerApp(clsCall'.app) )
        => /\ clsCall'.ok
           /\ ~clsCall'.requiresApproval
           /\ clsCall'.factors = "existing_rule"
           /\ ~clsCall'.llmCalled
           /\ \E r \in rules : /\ LowerApp(r.app_name) = LowerApp(clsCall'.app)
                                /\ r.classification = clsCall'.classification
           /\ rules' = rules
           /\ pending' = pending ]_vars

\* 'slack' was answered from the rule of 'Slack'
C21_Witness ==
    /\ clsCall.fn = "classifyNewApp" /\ clsCall.ok
    /\ clsCall.app = "slack"
    /\ clsCall.factors = "existing_rule"
    /\ \E r \in rules : r.app_name = "Slack"
    /\ ~\E r \in rules : r.app_name = "slack"

\* C24: an approve request whose overrideClassification is none of
\* productive, neutral, unproductive is not rejected: the value is dropped,
\* the pending row is approved with the classification and confidence the
\* LLM suggested, the response reports success, and no feedback is recorded.
C24_InvalidOverrideDropped ==
    [][ ( /\ Served("approveClassification")
          /\ clsCall'.body \notin Ratings \cup {""}
          /\ \E p \in pending : p.id = clsCall'.id )
        => /\ clsCall'.status = 200 /\ clsCall'.ok
           /\ clsCall'.override = ""
           /\ feedback' = feedback
           /\ \E p \in pending' : /\ p.id = clsCall'.id
                                  /\ p.status = "approved"
                                  /\ p.reviewed_by = clsCall'.uid
           /\ \E r \in rules' \ rules :
                 /\ r.app_name = Reviewed.app_name
                 /\ r.classification = Reviewed.suggested_classification
                 /\ r.confidence = Reviewed.confidence
                 /\ r.approved_by = clsCall'.uid
           /\ \A r \in rules' \ rules : r.classification \in Ratings ]_vars

\* a manager's approval that carried a value that is no rating has succeeded
C24_Witness ==
    /\ clsCall.fn = "approveClassification" /\ clsCall.ok
    /\ clsCall.body = "not a rating"
    /\ clsCall.status = 200
    /\ \E p \in pending : p.id = clsCall.id /\ p.status = "approved"
    /\ feedback = {}

\* C25: review is final: once a pending row is approved or rejected, no later
\* approve or reject call changes its status, creates or updates a rule from
\* it, or records feedback.
C25_ReviewIsFinal ==
    [][ ( /\ Served("approveClassification") \/ Served("rejectClassification")
          /\ \E p \in pending : p.id = clsCall'.id /\ p.status # "pending" )
        => /\ \A p \in pending' : p.id = clsCall'.id => p.status = Reviewed.status
           /\ rules' = rules
           /\ feedback' = feedback ]_vars

\* a row that had been rejected was approved afterwards and a rule of its app
\* exists
C25_Witness ==
    /\ clsCall.fn = "approveClassification" /\ clsCall.ok
    /\ \E i \in 1..Len(audit) : audit[i].query = "Reject classification: slack"
    /\ \E p \in pending : p.id = clsCall.id /\ p.status = "approved"
    /\ \E r \in rules : r.app_name = "slack"

\* C29: the feedback row of an override approval references the rule this
\* approval created or updated; recording the feedback changes that rule only:
\* no other rule, in particular no global rule of the same app name, is
\* changed.
C29_FeedbackOnApprovedRule ==
    [][ (Approves /\ feedback' # feedback)
        => /\ \A f \in feedback' \ feedback :
                 \E r \in rules' : /\ r.id = f.rule_id
                                   /\ r.id \notin {q.id : q \in rules}
                                   /\ r.team_id = Reviewed.team_id
           /\ \A r \in rules : r \in rules' ]_vars

\* an override approval has recorded feedback against a rule that has no team
C29_Witness ==
    /\ clsCall.fn = "approveClassification" /\ clsCall.ok
    /\ clsCall.override # ""
    /\ \E f \in feedback : \E r \in rules :
          /\ r.id = f.rule_id /\ r.team_id = NULL
          /\ r.classification = clsCall.override

\* C30: at most one pending classification with status 'pending' exists per
\* app name and team; classifying an app that already awaits review does not
\* enqueue a second review.
C30_OnePendingPerAppAndTeam ==
    \A p, q \in pending :
        ( /\ p.status = "pending" /\ q.status = "pending"
          /\ p.app_name = q.app_name /\ p.team_id = q.team_id )
        => p = q

\* the last classifyNewApp call queued an app for review
C30_Witness ==
    /\ clsCall.fn = "classifyNewApp" /\ clsCall.ok /\ clsCall.requiresApproval
    /\ \E p \in pending : p.status = "pending" /\ p.app_name = clsCall.app

(***************************************************************************)
(* Claims on the chat pipeline (checked under SpecChat)                    *)
(***************************************************************************)
\* the steps of a data query and the order the claim gives them
PipelineOrder ==
    { <<"parseQuery", "generateSQL">>, <<"generateSQL", "validateQuery">>,
      <<"validateQuery", "executeQuery">>, <<"executeQuery", "explainResults">>,
      <<"explainResults", "logSuccess">>, <<"logSuccess", "done">>,
      <<"catch", "done">> }
    \cup { <<p, "catch">> : p \in {"parseQuery", "generateSQL", "validateQuery",
                                    "executeQuery", "explainResults", "logSuccess"} }

MaxDays == 370     \* days after 2026-01-01 on which a query is asked

\* the day of new Date(year, month, date): month and date out of range roll
\* over as in JavaScript
DateOf(year, month, date) ==
    LET y == year + (month \div 12)
        m == month % 12
        leaps(k) == ((k - 1) \div 4) - ((k - 1) \div 100) + ((k - 1) \div 400)
        leap == (y % 4 = 0 /\ y % 100 # 0) \/ y % 400 = 0
        before == <<0, 31, 59, 90, 120, 151, 181, 212, 243, 273, 304, 334>>
    IN  365 * (y - 2025) + (leaps(y) - leaps(2025))
          + before[m + 1] + (IF leap /\ m > 1 THEN 1 ELSE 0) + date - 1

\* getFullYear, getMonth, getDate and getDay of a Date
DateFields(n) ==
    LET y == CHOOSE k \in 2022..2029 : DateOf(k, 0, 1) <= n /\ n < DateOf(k + 1, 0, 1)
        m == CHOOSE k \in 0..11 : DateOf(y, k, 1) <= n /\ n < DateOf(y, k + 1, 1)
    IN  [year |-> y, month |-> m, date |-> n - DateOf(y, m, 1) + 1,
         day |-> (n + 3) % 7]

\* lines 24-26, and toISOString().split('T')[0]
formatDate(n) ==
    LET f == DateFields(n) IN <<f.year, f.month + 1, f.date>>

\* lines 28-77
getDateContext(now) ==
    LET today == now
        f == DateFields(today)
        lastWeekEnd == today - f.day
    IN  [today |-> formatDate(today),
         yesterday |-> formatDate(today - 1),
         lastWeekStart |-> formatDate(lastWeekEnd - 6),
         lastWeekEnd |-> formatDate(lastWeekEnd),
         thisWeekStart |-> formatDate(today - f.day + 1),
         lastMonthStart |-> formatDate(DateOf(f.year, f.month - 1, 1)),
         lastMonthEnd |-> formatDate(DateOf(f.year, f.month, 0)),
         last30Days |-> formatDate(today - 30),
         last7Days |-> formatDate(today - 7)]

\* the index of a month name in monthNames (lines 516-529, 590-603), -1 if the
\* word is none
MonthIndex(w) ==
    CASE w = "january" -> 0 [] w = "february" -> 1 [] w = "march" -> 2
      [] w = "april" -> 3 [] w = "may" -> 4 [] w = "june" -> 5
      [] w = "july" -> 6 [] w = "august" -> 7 [] w = "september" -> 8
      [] w = "october" -> 9 [] w = "november" -> 10 [] w = "december" -> 11
      [] OTHER -> -1

\* parseInt of the digits of a word, -1 if it has none
DigitsOf(w) ==
    CASE w = "1" -> 1 [] w = "2" -> 2 [] w = "3" -> 3 [] w = "7" -> 7
      [] w = "30" -> 30 [] w = "45" -> 45
      [] w = "q1" -> 1 [] w = "q2" -> 2 [] w = "q3" -> 3 [] w = "q4" -> 4
      [] OTHER -> -1

\* the unit (month|week|day|year) a word begins with, "" if none
UnitOf(w) ==
    CASE w \in {"month", "months"} -> "month" [] w \in {"week", "weeks"} -> "week"
      [] w \in {"day", "days"} -> "day" [] w \in {"year", "years"} -> "year"
      [] OTHER -> ""

\* the first match of the pattern of line 701 in the lower-cased query, as the
\* sequence of its words; <<>> if there is none
RelativeMatch(query) ==
    LET lower == [i \in DOMAIN query |-> LowerWord(query[i])]
        n == Len(lower)
        IsNumber(w) == DigitsOf(w) >= 0 /\ w \notin {"q1", "q2", "q3", "q4"}
        \* the number of words the second group matches at position i, 0 if none
        Second(i) ==
            IF i > n THEN 0
            ELSE IF lower[i] \in {"month", "week", "quarter", "year"} THEN 1
            ELSE IF IsNumber(lower[i]) /\ i < n /\ UnitOf(lower[i + 1]) # "" THEN 2
            ELSE IF MonthIndex(lower[i]) >= 0 THEN 1
            ELSE IF lower[i] \in {"q1", "q2", "q3", "q4"} THEN 1
            ELSE 0
        \* the position after the first group matched at position i, 0 if none
        FirstGroup(i) ==
            IF lower[i] \in {"last", "this", "previous", "current"} THEN i + 1
            ELSE IF lower[i] = "from"
                    /\ \E j \in (i + 2)..n : lower[j] = "to" /\ Second(j + 1) > 0
            THEN 1 + CHOOSE j \in (i + 2)..n :
                        /\ lower[j] = "to" /\ Second(j + 1) > 0
                        /\ \A k \in (i + 2)..(j - 1) :
                              ~(lower[k] = "to" /\ Second(k + 1) > 0)
            ELSE 0
        Matches(i) == FirstGroup(i) > 0 /\ Second(FirstGroup(i)) > 0
    IN  IF \E i \in 1..n : Matches(i)
        THEN LET i == CHOOSE k \in 1..n : Matches(k) /\ \A l \in 1..(k - 1) : ~Matches(l)
             IN  SubSeq(lower, i, FirstGroup(i) + Second(FirstGroup(i)) - 1)
        ELSE <<>>

\* lines 579-670 for a range of two month names; today is the day of the call
parseFromToRange(relative, today) ==
    LET to == CHOOSE j \in 3..Len(relative) : relative[j] = "to"
        fromPart == SubSeq(relative, 2, to - 1)
        toPart == SubSeq(relative, to + 1, Len(relative))
        First(part) ==
            IF \E i \in 1..Len(part) : MonthIndex(part[i]) >= 0
            THEN LET S == {MonthIndex(part[i]) : i \in 1..Len(part)} \ {-1}
                 IN  CHOOSE k \in S : \A l \in S : k <= l
            ELSE -1
        fromMonthIndex == First(fromPart)
        toMonthIndex == First(toPart)
        year == DateFields(today).year
    IN  IF fromMonthIndex # -1 /\ toMonthIndex # -1
        THEN [start |-> <<DateFields(DateOf(year, fromMonthIndex, 1)).year,
                          DateFields(DateOf(year, fromMonthIndex, 1)).month + 1, 1>>,
              end |-> formatDate(DateOf(year, toMonthIndex + 1, 0))]
        \* lines 644-669: the parts are no dates, the fallback of the catch clause
        ELSE [start |-> formatDate(today - 30), end |-> formatDate(today)]

\* lines 290-574; relative is the matched expression, today the day of the call
parseRelativeDate(relative, today) ==
    LET f == DateFields(today)
        Is(a, b) == relative = <<a, b>>
        FirstOf(n) == LET g == DateFields(n) IN <<g.year, g.month + 1, 1>>
        lastQuarterStart == 3 * (((f.month \div 3) + 3) % 4)
        lastQuarterYear == IF f.month <= 2 THEN f.year - 1 ELSE f.year
        daysToMonday == IF f.day = 0 THEN 6 ELSE f.day - 1
        quarterWords == {i \in 1..Len(relative) : relative[i] \in {"q1", "q2", "q3", "q4"}}
        numberAt == {i \in 1..(Len(relative) - 1) :
                        /\ DigitsOf(relative[i]) >= 0
                        /\ relative[i] \notin {"q1", "q2", "q3", "q4"}
                        /\ UnitOf(relative[i + 1]) # ""}
        monthsNamed == {MonthIndex(relative[i]) : i \in 1..Len(relative)} \ {-1}
    IN  IF relative[1] = "from"
        THEN parseFromToRange(relative, today)
        ELSE IF Is("last", "month") \/ Is("previous", "month")
        THEN [start |-> FirstOf(DateOf(f.year, f.month - 1, 1)),
              end |-> formatDate(DateOf(f.year, f.month, 0))]
        ELSE IF Is("this", "month") \/ Is("current", "month")
        THEN [start |-> FirstOf(DateOf(f.year, f.month, 1)), end |-> formatDate(today)]
        ELSE IF Is("last", "week") \/ Is("previous", "week")
        THEN [start |-> formatDate(today - daysToMonday - 7),
              end |-> formatDate(today - daysToMonday - 7 + 6)]
        ELSE IF Is("this", "week") \/ Is("current", "week")
        THEN [start |-> formatDate(today - daysToMonday), end |-> formatDate(today)]
        ELSE IF Is("last", "quarter") \/ Is("previous", "quarter")
        THEN [start |-> FirstOf(DateOf(lastQuarterYear, lastQuarterStart, 1)),
              end |-> formatDate(DateOf(lastQuarterYear, lastQuarterStart + 3, 0))]
        ELSE IF Is("this", "quarter") \/ Is("current", "quarter")
        THEN [start |-> FirstOf(DateOf(f.year, 3 * (f.month \div 3), 1)),
              end |-> formatDate(today)]
        ELSE IF Is("last", "year") \/ Is("previous", "year")
        THEN [start |-> <<f.year - 1, 1, 1>>, end |-> <<f.year - 1, 12, 31>>]
        ELSE IF Is("this", "year") \/ Is("current", "year")
        THEN [start |-> <<f.year, 1, 1>>, end |-> formatDate(today)]
        ELSE IF quarterWords # {}
        THEN LET i == CHOOSE k \in quarterWords : \A l \in quarterWords : k <= l
                 quarterNum == DigitsOf(relative[i])
                 currentQuarter == (f.month \div 3) + 1
                 year == IF quarterNum > currentQuarter THEN f.year - 1 ELSE f.year
                 quarterStartMonth == (quarterNum - 1) * 3
             IN  [start |-> FirstOf(DateOf(year, quarterStartMonth, 1)),
                  end |-> formatDate(DateOf(year, quarterStartMonth + 3, 0))]
        ELSE IF numberAt # {}
        THEN LET i == CHOOSE k \in numberAt : \A l \in numberAt : k <= l
                 number == DigitsOf(relative[i])
                 unit == UnitOf(relative[i + 1])
                 from == CASE unit = "month" -> DateOf(f.year, f.month - number, f.date)
                           [] unit = "week" -> today - number * 7
                           [] unit = "day" -> today - number
                           [] unit = "year" -> DateOf(f.year - number, f.month, f.date)
             IN  [start |-> formatDate(from), end |-> formatDate(today)]
        ELSE IF monthsNamed # {}
        THEN LET monthIndex == CHOOSE k \in monthsNamed : \A l \in monthsNamed : k <= l
                 year == IF monthIndex > f.month THEN f.year - 1 ELSE f.year
             IN  [start |-> FirstOf(DateOf(year, monthIndex, 1)),
                  end |-> formatDate(DateOf(year, monthIndex + 1, 0))]
        ELSE [start |-> formatDate(today - 30), end |-> formatDate(today)]

\* lines 672-714; now is the day of the call
extractDateRange(query, now) ==
    LET ctx == getDateContext(now)
        relativeMatches == RelativeMatch(query)
        \* lowerQuery.includes(k1 + ' ' + k2 + ' ' + k3)
        IncludesTriple(userQuery, k1, k2, k3) ==
            \E i \in 1..(Len(userQuery) - 2) :
                /\ LowerWord(userQuery[i]) = k1 /\ LowerWord(userQuery[i + 1]) = k2
                /\ LowerWord(userQuery[i + 2]) = k3
    IN  IF IncludesPair(query, "last", "week") \/ IncludesPair(query, "past", "week")
        THEN [start |-> ctx.lastWeekStart, end |-> ctx.lastWeekEnd]
        ELSE IF IncludesPair(query, "this", "week")
        THEN [start |-> ctx.thisWeekStart, end |-> ctx.today]
        ELSE IF IncludesPair(query, "last", "month") \/ IncludesPair(query, "past", "month")
        THEN [start |-> ctx.lastMonthStart, end |-> ctx.lastMonthEnd]
        ELSE IF Includes(query, "yesterday")
        THEN [start |-> ctx.yesterday, end |-> ctx.yesterday]
        ELSE IF Includes(query, "today")
        THEN [start |-> ctx.today, end |-> ctx.today]
        ELSE IF IncludesTriple(query, "last", "7", "days")
                \/ IncludesTriple(query, "past", "7", "days")
        THEN [start |-> ctx.last7Days, end |-> ctx.today]
        ELSE IF IncludesTriple(query, "last", "30", "days")
                \/ IncludesTriple(query, "past", "30", "days")
        THEN [start |-> ctx.last30Days, end |-> ctx.today]
        ELSE IF relativeMatches # <<>>
        THEN parseRelativeDate(relativeMatches, now)
        ELSE [start |-> ctx.last30Days, end |-> ctx.today]

\* the query texts asked of the resolver, on the days from 2026-01-01
InitDates ==
    LET DateQueries ==
            { <<"hours">>, <<"hours", "last", "week">>, <<"hours", "this", "week">>,
              <<"hours", "past", "month">>, <<"hours", "yesterday">>, <<"hours", "today">>,
              <<"hours", "last", "7", "days">>, <<"hours", "past", "30", "days">>,
              <<"hours", "previous", "month">>, <<"hours", "current", "month">>,
              <<"hours", "previous", "week">>, <<"hours", "current", "week">>,
              <<"hours", "last", "quarter">>, <<"hours", "this", "quarter">>,
              <<"hours", "last", "year">>, <<"hours", "this", "year">>,
              <<"hours", "last", "q4">>, <<"hours", "this", "q1">>,
              <<"hours", "last", "3", "months">>, <<"hours", "last", "2", "weeks">>,
              <<"hours", "last", "45", "days">>, <<"hours", "last", "1", "year">>,
              <<"hours", "last", "december">>, <<"hours", "this", "february">>,
              <<"hours", "from", "january", "to", "march">>,
              <<"hours", "from", "march", "to", "january">> }
    IN  /\ \E q \in DateQueries : \E k \in 0..MaxDays :
              fnIn = [userQuery |-> q, now |-> DateOf(2026, 0, 1) + k]
        /\ FnIdle

\* parseQuery attaches the range (lines 184-214, 257-268)
InferDateRange ==
    /\ fnOut.fn = "none"
    /\ fnOut' = [fn |-> "inferDateRange",
                 dateRange |-> extractDateRange(fnIn.userQuery, fnIn.now)]
    /\ UNCHANGED <<fnIn, usersTbl, authCall, sqlVars, clsVars, chat>>

SpecDates == InitDates /\ [][InferDateRange]_vars

(***************************************************************************)
(* Claims on the relative dates (checked under SpecDates)                  *)
(***************************************************************************)
\* 'YYYY-MM-DD' strings compared as the code's consumers compare them
DateLeq(a, b) ==
    \/ a[1] < b[1]
    \/ a[1] = b[1] /\ a[2] < b[2]
    \/ a[1] = b[1] /\ a[2] = b[2] /\ a[3] <= b[3]

\* C23: for every current date and every query text, the date range the
\* resolver attaches has start <= end.
C23_StartNotAfterEnd ==
    fnOut.fn = "inferDateRange" => DateLeq(fnOut.dateRange.start, fnOut.dateRange.end)

\* a query about "this week" asked on a Sunday got a range
C23_Witness ==
    /\ fnOut.fn = "inferDateRange"
    /\ fnIn.userQuery = <<"hours", "this", "week">>
    /\ DateFields(fnIn.now).day = 0

(***************************************************************************)
(* Reviews by the managers of two teams, with statements of                *)
(* approveClassification that the database refuses                         *)
(***************************************************************************)
\* approveClassification (176-251) when one of its statements throws: the
\* writes made before that statement stay, since the function opens no
\* transaction
approveClassificationFailing(pendingId, user, override) ==
    LET found == {p \in pending : p.id = pendingId}
        record == CHOOSE p \in found : TRUE
        new == [id |-> nextId, app_name |-> record.app_name,
                team_id |-> record.team_id, role |-> NULL,
                classification |-> FinalClassification(override, record),
                confidence |-> IF override # "" THEN 100 ELSE record.confidence,
                reasoning |-> IF override # "" THEN "override" ELSE "llm",
                approved_by |-> user.id]
        conflict == {r \in rules : UniqueConflict(r, new)}
        rules1 ==
            IF conflict = {} THEN rules \cup {new}
            ELSE { IF r \in conflict
                   THEN [r EXCEPT !.classification = new.classification,
                                  !.confidence = new.confidence,
                                  !.reasoning = new.reasoning,
                                  !.approved_by = new.approved_by]
                   ELSE r : r \in rules }
        id1 == IF conflict = {} THEN nextId + 1 ELSE nextId
        pending1 ==
            { IF p.id = pendingId
              THEN [p EXCEPT !.status = "approved", !.reviewed_by = user.id]
              ELSE p : p \in pending }
        rule == {r \in rules1 :
                    /\ r.app_name = record.app_name
                    /\ \/ (record.team_id # NULL /\ r.team_id = record.team_id)
                       \/ r.team_id = NULL}
        \* the SELECT of 185 or the INSERT of 199 throws
        atStart == [Unchanged EXCEPT !.threw = TRUE]
        \* the UPDATE of 218 throws
        afterUpsert == [atStart EXCEPT !.rules = rules1, !.nextId = id1]
        \* the SELECT of 228, the INSERT of rbac.ts 283 or, without an override,
        \* the logAgentAction of 244 throws
        afterUpdate == [afterUpsert EXCEPT !.pending = pending1]
    IN  IF found = {} THEN {atStart}
        ELSE {atStart, afterUpsert, afterUpdate}
             \cup IF override # "" /\ override # record.suggested_classification
                  THEN UNION { LET fb == recordFeedback(rules1, feedback, id1, r.id,
                                                        record.suggested_classification,
                                                        override, user.id)
                               IN  { \* the UPDATE of rbac.ts 291 throws
                                     [afterUpdate EXCEPT !.feedback = fb.feedback,
                                                         !.nextId = id1 + 1],
                                     \* the logAgentAction of 244 throws
                                     [afterUpdate EXCEPT !.feedback = fb.feedback,
                                                         !.rules = fb.rules,
                                                         !.nextId = id1 + 1] }
                               : r \in rule }
                  ELSE {}

\* POST /:id/approve (81-128) when a statement of approveClassification throws
PostApproveDbFails(user, id, overrideClassification) ==
    LET overrideRating ==
            IF overrideClassification \in Ratings THEN overrideClassification ELSE ""
    IN  /\ clsCall.n < MaxCalls
        /\ requireRole({"admin", "manager"}, user)
        /\ UNCHANGED reviewedBefore
        /\ \E o \in approveClassificationFailing(id, user, overrideRating) :
              /\ Apply(o)
              /\ clsCall' =
                   [Request("approve", user, 500)
                      EXCEPT !.fn = "approveClassification", !.ok = FALSE,
                             !.id = id, !.override = overrideRating,
                             !.body = overrideClassification]

NextReview ==
    \/ \E u \in {MgrUser, Mgr2User}, llm \in LLMAnswers :
          /\ llm.kind = "json" /\ llm.confidence \in {85, 90}
          /\ PostClassify(u, "slack", llm, "7") /\ UNCHANGED <<sqlVars, chat, auxVars>>
    \/ \E u \in {MgrUser, Mgr2User} :
          GetPending(u) /\ UNCHANGED <<sqlVars, chat, auxVars>>
    \/ \E u \in {MgrUser, Mgr2User}, id \in PendingIds, o \in {"", "unproductive"} :
          PostApprove(u, id, o) /\ UNCHANGED <<sqlVars, chat, auxVars>>
    \/ \E u \in {MgrUser, Mgr2User}, id \in PendingIds, o \in {"", "unproductive"} :
          PostApproveDbFails(u, id, o) /\ UNCHANGED <<sqlVars, chat, auxVars>>
    \/ \E u \in {MgrUser, Mgr2User}, id \in PendingIds :
          PostReject(u, id, "wrong") /\ UNCHANGED <<sqlVars, chat, auxVars>>

SpecReview == Init /\ [][NextReview]_vars

(***************************************************************************)
(* Claims on reviews across teams and on failing approvals (checked under  *)
(* SpecReview)                                                             *)
(***************************************************************************)
\* the manager who made the last review request
Reviewer == CHOOSE u \in {MgrUser, Mgr2User} : u.id = clsCall'.uid

\* C26: a manager can approve or reject only pending classifications of their
\* own team, the set getPendingClassifications returns to them; a manager's
\* call on a row outside that set changes nothing.
C26_ManagersReviewOwnTeam ==
    [][ ( /\ Served("approveClassification") \/ Served("rejectClassification")
          /\ clsCall'.role = "manager"
          /\ \E p \in pending : p.id = clsCall'.id
          /\ clsCall'.id \notin getPendingClassifications(Reviewer) )
        => /\ pending' = pending
           /\ rules' = rules
           /\ feedback' = feedback ]_vars

\* the manager of team T2 has approved a row of team T1, and a rule of team T1
\* exists that this manager approved
C26_Witness ==
    /\ clsCall.fn = "approveClassification" /\ clsCall.ok
    /\ clsCall.uid = Mgr2User.id
    /\ \E p \in pending : /\ p.id = clsCall.id /\ p.team_id = MgrUser.team_id
                          /\ p.status = "approved" /\ p.reviewed_by = Mgr2User.id
    /\ \E r \in rules : r.team_id = MgrUser.team_id /\ r.approved_by = Mgr2User.id

\* C28: approveClassification is all-or-nothing: when it throws (the pending id
\* is not found, or the rule upsert, the status update or the feedback insert
\* fails) no rule is created or changed, the status of the pending row is
\* unchanged and no feedback row is recorded.
C28_ApproveAllOrNothing ==
    [][ (Served("approveClassification") /\ ~clsCall'.ok)
        => /\ rules' = rules
           /\ pending' = pending
           /\ feedback' = feedback ]_vars

\* an approval has thrown and the rule it had upserted is in the table while
\* the pending row still awaits review
C28_Witness ==
    /\ clsCall.fn = "approveClassification" /\ ~clsCall.ok /\ clsCall.status = 500
    /\ \E p \in pending :
          /\ p.id = clsCall.id /\ p.status = "pending"
          /\ \E r \in rules : r.app_name = p.app_name /\ r.approved_by = clsCall.uid

(***************************************************************************)
(* Two classifyNewApp calls in flight at once.  A call awaits its SELECT   *)
(* of the existing rule, then the usage analysis, the LLM and the          *)
(* thresholds, and only then its INSERT; the other call's statements may   *)
(* run at every await.                                                     *)
(***************************************************************************)
\* lines 31-48 of call c: the existing rule is looked up and, if there is one,
\* returned
ClassifySelects(c) ==
    /\ fnOut.pc[c] = "start"
    /\ fnOut' = [fnOut EXCEPT
                   !.pc[c] = IF ExistingRule(fnIn[c].appName) # {}
                             THEN "existing_rule" ELSE "classifying"]
    /\ UNCHANGED <<fnIn, usersTbl, authCall, sqlVars, clsVars, chat>>

\* lines 50-125 of call c: the answer of the LLM is compared with the
\* thresholds and stored as a pending row or as a rule, and the call is logged
ClassifyStores(c) ==
    LET in == fnIn[c]
        result == classifyApp(in.llm)
        thresholds ==
            getAdjustedConfidenceThresholds(
                getFeedbackStats(pending, feedback, reviewedBefore))
        requiresApproval == RequiresApproval(result.confidence, thresholds.autoApprove)
    IN  /\ fnOut.pc[c] = "classifying"
        /\ fnOut' = [fnOut EXCEPT
                       !.pc[c] = IF requiresApproval THEN "queued" ELSE "autoApproved"]
        /\ pending' =
              IF requiresApproval
              THEN pending \cup
                     {[id |-> nextId, app_name |-> in.appName,
                       team_id |-> in.user.team_id,
                       suggested_classification |-> result.classification,
                       confidence |-> result.confidence, status |-> "pending",
                       reviewed_by |-> NULL]}
              ELSE pending
        /\ rules' =
              IF requiresApproval THEN rules
              ELSE rules \cup
                     {[id |-> nextId, app_name |-> in.appName, team_id |-> NULL,
                       role |-> NULL, classification |-> result.classification,
                       confidence |-> result.confidence, reasoning |-> "llm",
                       approved_by |-> NULL]}
        /\ nextId' = nextId + 1
        /\ audit' = Append(audit, logAgentAction(
                       [agentType |-> "classification", userId |-> in.user.id,
                        queryText |-> "Classify app: " \o in.appName,
                        response |-> result.classification,
                        executionTimeMs |-> "7", success |-> TRUE]))
        /\ UNCHANGED <<fnIn, usersTbl, authCall, sqlVars, chat, feedback,
                       reviewedBefore, clsCall>>

InitTwoCalls ==
    /\ fnIn \in [1..2 -> [appName : {"Slack", "slack"},
                          user : {MgrUser, Mgr2User},
                          llm : {a \in LLMAnswers :
                                    a.kind = "json" /\ a.confidence \in {85, 90}}]]
    /\ fnOut = [fn |-> "classifyNewApp", pc |-> [c \in 1..2 |-> "start"]]
    /\ sqlIn = [user |-> AdminUser, llm |-> <<>>]
    /\ sqlCall = NoSqlCall
    /\ dbTables = SchemaTables
    /\ ClsIdle
    /\ chat = NoChat
    /\ usersTbl = SeededUsers
    /\ authCall = NoAuthCall

NextTwoCalls == \E c \in 1..2 : ClassifySelects(c) \/ ClassifyStores(c)

SpecTwoCalls == InitTwoCalls /\ [][NextTwoCalls]_vars

(***************************************************************************)
(* Claims on concurrent classification (checked under SpecTwoCalls)        *)
(***************************************************************************)
\* both calls were for one app, found no rule and have auto-approved
BothAutoApproved ==
    /\ fnIn[1].appName = fnIn[2].appName
    /\ \A c \in 1..2 : fnOut.pc[c] = "autoApproved"

\* C27: two concurrent classifyNewApp calls for the same app with no rule,
\* both reaching the auto-approve branch, leave at most one rule for that app.
C27_OneRulePerApp ==
    BothAutoApproved
    => Cardinality({r \in rules : r.app_name = fnIn[1].appName}) <= 1

\* the second call looked for the rule before the first call had inserted it,
\* and both have stored their rule
C27_Witness ==
    /\ BothAutoApproved
    /\ Cardinality(rules) = 2

====
